---- MODULE Spec2Model ----
(***************************************************************************)
(* State-machine model of NotiphyWidget (src/src/components/widget.js,     *)
(* lines 43-1351): the inbox DOM, its displayed counters, the session      *)
(* cache, the durable settings, the timers and the requests in flight.     *)
(* The backend and the realtime channel are the environment.               *)
(***************************************************************************)
EXTENDS Integers, Sequences, FiniteSets, TLC

\* ------------------------------------------------------------------ bounds
MaxIds == 1          \* notification ids the backend can publish: 1..MaxIds
MaxInFlight == 2     \* requests in flight plus pending timers, all kinds together
MaxInbox == 2        \* the environment adds no entry at this inbox length or count
MaxMergeIds == 2     \* ids of the lists in the merge specification
MaxRemote == 2       \* entries of a listing response in the merge specification
MaxBlockers == 2     \* ids of the notifications published with alertLevel 'blocker'
MaxToastTimers == 2  \* pending 300 ms removal timers of one toast

\* ---------------------------------------------------------------- constants
MinRefreshMs == 300000   \* widget.js:164
ErrId == 0               \* widget.js:867, the synthetic notification's id
ErrIdAttr == -2          \* the attribute string "0" that element carries
ToastDuration == 4       \* widget.js:56, seconds
DefaultRefresh == 0      \* widget.js:60

Ids == 1..MaxIds
AllIds == Ids \cup {ErrId}
\* The alertLevel of a notification never changes, so it is read off the id:
\* the blocker notifications are the ids after MaxIds.
BlockerIds == (MaxIds + 1)..(MaxIds + MaxBlockers)
NoteIds == Ids \cup BlockerIds
alertLevel(id) == IF id \in BlockerIds THEN "blocker" ELSE "info"
Elems == 1..(2 * MaxInbox + MaxIds + MaxInFlight + 2)      \* pool of DOM element identities
NoElem == [id |-> -1, read |-> FALSE]    \* an element that does not exist

Range(s) == {s[i] : i \in 1..Len(s)}
RemoveAt(s, i) == SubSeq(s, 1, i - 1) \o SubSeq(s, i + 1, Len(s))
Max(a, b) == IF a >= b THEN a ELSE b

VARIABLES
    phase,          \* "unloaded" | "rejected" | "running" | "leaving": the page's widget
    settings,       \* localStorage notiphySettings: NoSettings or a config
    config,         \* this.config
    cache,          \* sessionStorage notiphyWidgetNotifications (absent = <<>>)
    lastFetched,    \* localStorage notiphyWidgetLastFetched: 0 absent, 1 set
    domCreated,     \* createDomElements has run
    inbox,          \* .notiphy-notification-center-body children, top first
    elems,          \* element identity -> [id, read] (notiphy-read / open)
    unreadCount,    \* text of .notiphy-notification-center-stats-unread
    totalCount,     \* text of .notiphy-notification-center-stats-total
    socket,         \* "null" | "connecting" | "connected" | "disconnected"
    refreshMs,      \* delay of the periodic setInterval, 0 when none
    pendingAdds,    \* setTimeout closures of handleNotification
    fetches,        \* fetchNotifications calls suspended at their await
    posts,          \* mark-read and dismiss POSTs in flight
    markAllQ,       \* staggered timers of markAllRead, first to fire first
    dismissAllQ,    \* staggered timers of dismissAllNotifications
    reminderOn,     \* this.reminderIntervalId is set
    srv,            \* backend: id -> "none" | "unread" | "read" | "gone"
    last,           \* history: a note on the last step
    recording,      \* history: whether this behaviour keeps the two sets below
    dismissed,      \* history: ids whose dismissal this page has applied
    lowered,        \* history: ids whose mark-read has lowered the unread count
    modal,          \* #notiphy-blocker-modal: display, fade-out class, content
    closeTimers,    \* pending 500 ms timers of closeModal
    toasts,         \* ids of the toasts in .notiphy-toaster
    acked,          \* history: ids whose modal the user closed since it was shown
    place,          \* backend: id -> the locationId it was published for
    toast,          \* id -> the timers, classes and pointer state of its toast
    wire,           \* history of the realtime traffic, when it is kept
    notificationsLoaded,    \* this.notificationsLoaded
    centerOpen,     \* #notiphy-notification-center has the class "open"
    reminderTimers, \* the reminder intervals that setInterval has set and
                    \* clearInterval has not cleared
    initial,        \* this.initialConfig, where it is followed
    link            \* the connection status display, where it is followed

vars == <<phase, settings, config, cache, lastFetched, domCreated, inbox, elems,
          unreadCount, totalCount, socket, refreshMs, pendingAdds, fetches,
          posts, markAllQ, dismissAllQ, reminderOn, srv, last, recording,
          dismissed, lowered, modal, closeTimers, toasts, acked, place, toast,
          wire, notificationsLoaded, centerOpen, reminderTimers, initial, link, link>>

\* the blocker modal, the toaster and their history, the locations of the
\* published notifications, the realtime history and the inbox panel
panelVars == <<toast, wire, notificationsLoaded, centerOpen>>
restVars ==
    <<modal, closeTimers, toasts, acked, place, panelVars, reminderTimers, initial>>
otherVars == <<restVars, link>>

\* ------------------------------------------------------------ configuration
Null == "null"                       \* JavaScript null / undefined
Fields == {"subscriberId", "widgetKey", "locationId", "refreshInterval", "toastAlert",
           "audioReminder", "showInboxOnLoad"}
NoSettings == [present |-> FALSE]    \* localStorage has no notiphySettings item

\* this.defaultConfig (the fields the model follows)
DefaultConfig ==
    [subscriberId |-> Null, widgetKey |-> Null, locationId |-> "default",
     refreshInterval |-> DefaultRefresh, toastAlert |-> FALSE,
     audioReminder |-> FALSE, showInboxOnLoad |-> FALSE]

\* { ...this.defaultConfig, ...config }: a caller option is its set of given
\* fields and their values
Overlay(defaults, opts) ==
    [f \in Fields |-> IF f \in opts.given THEN opts.val[f] ELSE defaults[f]]

Stored(cfg) == [present |-> TRUE, cfg |-> cfg]

\* stored settings returned as they are, locationId included
loadSettingsKept(initialConfig) == IF settings.present THEN settings.cfg ELSE Null

\* loadSettings(): the stored settings with locationId overwritten by the
\* caller's, or null
loadSettings(initialConfig) ==
    IF settings.present
    THEN IF initialConfig.locationId # settings.cfg.locationId
         THEN [settings.cfg EXCEPT !.locationId = initialConfig.locationId]
         ELSE settings.cfg
    ELSE Null

\* this.config = this.loadSettings() || this.initialConfig
EffectiveConfig(initialConfig) ==
    IF settings.present THEN loadSettings(initialConfig) ELSE initialConfig

\* stored settings have replaced a value the caller gave
Overrode(opts, cfg) ==
    settings.present /\ \E f \in opts.given \ {"locationId"} : cfg[f] # opts.val[f]

\* checkLocationChange(): the stored locationId differs from the effective one
LocationNeverChanged(cfg) == FALSE
LocationChanged(cfg) == settings.present /\ cfg.locationId # settings.cfg.locationId

\* the constructor's two required-field checks (each returns early)
RequiredMissingNoKey(cfg) == cfg.subscriberId = Null
RequiredMissing(cfg) == cfg.subscriberId = Null \/ cfg.widgetKey = Null

\* setupPeriodicRefresh(): the setInterval delay, 0 when no interval is set
RefreshDelayUnclamped(refreshInterval) ==
    IF refreshInterval # 0 THEN refreshInterval * 1000 ELSE 0
RefreshDelay(refreshInterval) ==
    IF refreshInterval # 0 THEN Max(MinRefreshMs, refreshInterval * 1000) ELSE 0

\* ------------------------------------------------------------------ the DOM
\* The inbox and its counters as one value d = [inbox, elems, unread, total],
\* so that a handler's consecutive DOM calls compose.
Dom == [inbox |-> inbox, elems |-> elems, unread |-> unreadCount, total |-> totalCount]

\* Elements that closures still hold: the targetElement of a dismiss POST in
\* flight and the buttons of pending mark-all / dismiss-all timers.
Referenced ==
    {posts[i].elem : i \in {j \in 1..Len(posts) : posts[j].kind = "dismiss"}}
        \cup Range(markAllQ) \cup Range(dismissAllQ)

\* document.createElement: an identity no live or held element has
FreshElem(d) ==
    CHOOSE e \in Elems :
        /\ e \notin Range(d.inbox) \cup Referenced
        /\ \A f \in Elems : f < e => f \in Range(d.inbox) \cup Referenced

\* Math.max(0, n) of every decrement
ClampOff(n) == n
Clamp(n) == IF n < 0 THEN 0 ELSE n

\* addToNotiphyCenter(notification): prepend the element, raise the counters
addToNotiphyCenter(d, n) ==
    LET e == FreshElem(d) IN
    [inbox |-> <<e>> \o d.inbox,
     elems |-> [d.elems EXCEPT ![e] = [id |-> n.id, read |-> n.read]],
     unread |-> IF ~n.read THEN d.unread + 1 ELSE d.unread,
     total |-> d.total + 1]

\* notificationsCenter.innerHTML = ``; updateUnreadCount(0); updateTotalCount(0);
\* this.notifications.forEach(addToNotiphyCenter)
RECURSIVE AddAll(_, _)
AddAll(d, ns) ==
    IF ns = <<>> THEN d ELSE AddAll(addToNotiphyCenter(d, Head(ns)), Tail(ns))
RebuildOnTop(d, ns) == AddAll(d, ns)
Rebuild(d, ns) ==
    AddAll([inbox |-> <<>>, elems |-> d.elems, unread |-> 0, total |-> 0], ns)

\* document.querySelectorAll(`[data-notification-id="${id}"]`) restricted to
\* the inbox, in document order: positions of the entries of that id
Positions(d, id) == {i \in 1..Len(d.inbox) : d.elems[d.inbox[i]].id = id}
FirstElem(d, id) ==
    d.inbox[CHOOSE i \in Positions(d, id) : \A j \in Positions(d, id) : i <= j]

\* the element is a toast (class "notiphy-toast"), not an inbox entry
IsToast(el) == "toast" \in DOMAIN el

\* document.querySelectorAll(".notiphy-button-dismiss") in the toaster, which
\* comes before the inbox in the document: the dismiss controls of the
\* toasts of ids, each named as the element that a closure now holds. A
\* toast of a realtime notification has no class "notiphy-read".
RECURSIVE toastButtons(_, _, _)
toastButtons(d, ids, held) ==
    IF ids = {} THEN [elems |-> d.elems, held |-> held]
    ELSE LET id == CHOOSE x \in ids : \A y \in ids : x <= y
             used == Range(d.inbox) \cup Referenced \cup Range(held)
             e == CHOOSE x \in Elems :
                      x \notin used /\ \A f \in Elems : f < x => f \in used
         IN toastButtons(
                [d EXCEPT !.elems[e] = [id |-> id, read |-> FALSE, toast |-> TRUE]],
                ids \ {id}, Append(held, e))

Without(d, gone) ==
    LET Keep(e) == e \notin gone IN SelectSeq(d.inbox, Keep)

\* ------------------------------------------------------- the session cache
\* A cached notification is [id, read]; JSON.stringify / JSON.parse of such
\* plain data gives the same list back.
Note(id, read) == [id |-> id, read |-> read]

\* updateLocalNotification(id, {read: true})
updateLocalNotification(c, id) ==
    LET hits == {i \in 1..Len(c) : c[i].id = id} IN
    IF hits = {} THEN c
    ELSE LET k == CHOOSE i \in hits : \A j \in hits : i <= j
         IN [c EXCEPT ![k] = [c[k] EXCEPT !.read = TRUE]]

\* removeLocalNotification(id)
removeLocalNotification(c, id) ==
    LET Keep(n) == n.id # id IN SelectSeq(c, Keep)

\* ---------------------------------------------------------------- the merge
\* new Map(): a list of entries with distinct ids, in insertion order
MapSet(m, n) ==
    IF \E i \in 1..Len(m) : m[i].id = n.id
    THEN [i \in 1..Len(m) |-> IF m[i].id = n.id THEN n ELSE m[i]]
    ELSE Append(m, n)
MapDelete(m, id) ==
    LET Keep(n) == n.id # id IN SelectSeq(m, Keep)

RECURSIVE MapSetAll(_, _)
MapSetAll(m, ns) ==
    IF ns = <<>> THEN m ELSE MapSetAll(MapSet(m, Head(ns)), Tail(ns))

\* fetchedNotifications.forEach: a remote entry is [id, read, dismissed]
RECURSIVE ApplyFetchedLocalWins(_, _)
ApplyFetchedLocalWins(m, rs) ==
    IF rs = <<>> THEN m
    ELSE LET r == Head(rs) IN
         ApplyFetchedLocalWins(
             IF r.dismissed THEN MapDelete(m, r.id)
             ELSE IF \E i \in 1..Len(m) : m[i].id = r.id THEN m
             ELSE MapSet(m, Note(r.id, r.read)),
             Tail(rs))
RECURSIVE ApplyFetched(_, _)
ApplyFetched(m, rs) ==
    IF rs = <<>> THEN m
    ELSE LET r == Head(rs) IN
         ApplyFetched(IF r.dismissed THEN MapDelete(m, r.id)
                      ELSE MapSet(m, Note(r.id, r.read)),
                      Tail(rs))

\* Array.from(notificationMap.values()) after both forEach loops
MergeLocalWins(local, remote) == ApplyFetchedLocalWins(MapSetAll(<<>>, local), remote)
mergeNotifications(local, remote) == ApplyFetched(MapSetAll(<<>>, local), remote)

\* -------------------------------------------------------------- the backend
\* What the listing endpoint can say about one id: nothing for an id it does
\* not know, the notification with its read flag, or (for one that was
\* dismissed or has expired) a dismissed entry or nothing.
Remote(id, read, flag) == [id |-> id, read |-> read, dismissed |-> flag]
Listed(id) ==
    CASE srv[id] = "unread" -> Remote(id, FALSE, FALSE)
      [] srv[id] = "read" -> Remote(id, TRUE, FALSE)
      [] OTHER -> Remote(id, FALSE, TRUE)

RECURSIVE Ascending(_)
Ascending(S) ==
    IF S = {} THEN <<>>
    ELSE LET m == CHOOSE x \in S : \A y \in S : x <= y
         IN <<Listed(m)>> \o Ascending(S \ {m})

\* every response body the backend can give now: any of the ids it knows
Responses == {Ascending(S) : S \in SUBSET {id \in NoteIds : srv[id] # "none"}}

\* ------------------------------------------------------------------ history
\* last is a note on the step just taken, for the steps a property has to
\* recognise. did says what the step did for the backend id in id:
\*   "notified"  a notification event for it was handled, or the insertion
\*               that event had scheduled ran,
\*   "dismissed" its dismissal was applied (a dismiss POST the backend
\*               accepted, or a dismiss event that removed an entry),
\*   "lowered"   a mark-read request for it (click, mark-all timer, mark-read
\*               event) lowered the displayed unread count,
\*   "merged"    a successful fetch merged, stored and rendered,
\*   "unloaded"  the page was left,
\*   "reset"     resetSettings ran,
\*   "audible", "silent"  a reminder tick played that cue,
\*   "cleared"   the constructor found another locationId in the stored
\*               settings and removed a cache and a watermark that were there,
\* and "" for every other step. clamped says that a decrement of the step
\* met a counter that was already zero.
Quiet == [did |-> "", id |-> 0, clamped |-> FALSE, overrode |-> FALSE]
Noted(hitZero) == [Quiet EXCEPT !.clamped = hitZero]
Did(did, id, hitZero) ==
    IF id \in NoteIds THEN [Quiet EXCEPT !.did = did, !.id = id, !.clamped = hitZero]
    ELSE Noted(hitZero)

\* The history of the page, read off the note of the step. dismissed holds
\* the ids whose dismissal has been applied with no notification event for
\* them since; lowered holds the ids for which a mark-read request has lowered
\* the unread count. Only a behaviour that starts recording keeps them.
Remember ==
    /\ UNCHANGED recording
    /\ IF recording
       THEN /\ dismissed' = CASE last'.did = "dismissed" -> dismissed \cup {last'.id}
                               [] last'.did = "notified" -> dismissed \ {last'.id}
                               [] last'.did = "unloaded" -> {}
                               [] OTHER -> dismissed
            /\ lowered' = CASE last'.did = "lowered" -> lowered \cup {last'.id}
                             [] last'.did = "unloaded" -> {}
                             [] OTHER -> lowered
       ELSE UNCHANGED <<dismissed, lowered>>

\* ------------------------------------------------------------- construction
NoElems == [e \in Elems |-> NoElem]

\* createDomElements: the blocker modal is built hidden, with its default text
NoModal == [shown |-> FALSE, fading |-> FALSE, id |-> 0]

\* showToast has set no timer and the toaster holds no toast for the id.
\* style: the <style> element of the id's last toast is in document.head;
\* leaked: one of an earlier toast of the id is, with no timer left for it.
NoToast ==
    [showTimer |-> FALSE, armed |-> FALSE, orphans |-> 0, removers |-> 0,
     dismissers |-> 0, hide |-> FALSE, hover |-> FALSE, style |-> FALSE,
     leaked |-> FALSE]
NoToasts == [id \in Ids |-> NoToast]

\* this.initialConfig of the page: cfg is { ...defaultConfig, ...config } as the
\* constructor computed it; aliased says that this.config is that same
\* object (line 67 with nothing stored), so that what is written to one is
\* read from the other. It is followed only where on says so.
NoInitial == [on |-> FALSE, aliased |-> FALSE, cfg |-> DefaultConfig]

\* The connection display as createDomElements builds it: the status text is
\* empty and the indicator has no class "connected". awaiting holds the
\* positions of the fetches that a 'connect' handler awaits. It is followed
\* only where on says so.
LinkOff == [on |-> FALSE, text |-> "", marked |-> FALSE, awaiting |-> {}]

\* updateConnectionStatus(status): the text is set, the class is toggled
updateConnectionStatus(l, status) ==
    IF l.on THEN [l EXCEPT !.text = status, !.marked = ~@] ELSE l

\* socket 'connect': the handler awaits the fetch it has just started
connectAwaits(l, i) == IF l.on THEN [l EXCEPT !.awaiting = @ \cup {i}] ELSE l

\* fetchNotifications() of position i has returned, by its last statement or
\* through its catch block: a 'connect' handler that awaited it goes on with
\* updateConnectionStatus("Online: ..."); the later fetches move up
fetchSettled(l, i) ==
    LET moved == [l EXCEPT !.awaiting = {IF j > i THEN j - 1 ELSE j : j \in @ \ {i}}]
    IN IF i \in l.awaiting THEN updateConnectionStatus(moved, "Online") ELSE moved

\* The realtime history: got holds the ids whose notification event arrived
\* before the backend dismissed them; told holds the ids of got whose dismiss
\* event arrived while the page had them, with no notification event for
\* them since; out holds the events the page has emitted, each with whether
\* the backend had applied the call it follows; idle holds the ids of the
\* mark-read and dismiss events that found nothing tagged and returned.
\* stopped holds the ids of the inbox entries whose 5 s footer interval a click
\* on their dismiss control has cleared; leaked says that an entry has left
\* the inbox with its interval still set.
WireOff ==
    [on |-> FALSE, got |-> {}, told |-> {}, out |-> {}, idle |-> {}, stopped |-> {},
     leaked |-> FALSE]

\* entries of these ids leave the inbox: nothing clears their intervals
footerLeaves(w, ids) ==
    IF w.on THEN [w EXCEPT !.leaked = @ \/ ids \ w.stopped # {}, !.stopped = @ \ ids]
    ELSE w
WireOn == [WireOff EXCEPT !.on = TRUE]

\* what a page load starts from: nothing in memory, nothing on screen
PageState ==
    /\ domCreated = FALSE /\ inbox = <<>> /\ elems = NoElems
    /\ unreadCount = 0 /\ totalCount = 0 /\ socket = "null" /\ refreshMs = 0
    /\ pendingAdds = <<>> /\ fetches = <<>> /\ posts = <<>>
    /\ markAllQ = <<>> /\ dismissAllQ = <<>> /\ reminderOn = FALSE
    /\ modal = NoModal /\ closeTimers = 0 /\ toasts = {} /\ acked = {}
    /\ toast = NoToasts /\ notificationsLoaded = FALSE /\ centerOpen = FALSE
    /\ reminderTimers = 0

Start ==
    /\ phase = "unloaded"
    /\ settings = NoSettings
    /\ config = DefaultConfig
    /\ cache = <<>>
    /\ lastFetched = 0
    /\ PageState
    /\ srv = [id \in NoteIds |-> "none"]
    /\ place = [id \in NoteIds |-> Null]
    /\ last = Quiet
    /\ dismissed = {}
    /\ lowered = {}

Init == Start /\ recording = FALSE /\ wire = WireOff /\ initial = NoInitial /\ link = LinkOff
InitHistory == Start /\ recording = TRUE /\ wire = WireOff /\ initial = NoInitial /\ link = LinkOff
InitWire == Start /\ recording = FALSE /\ wire = WireOn /\ initial = NoInitial /\ link = LinkOff
InitReset ==
    Start /\ recording = FALSE /\ wire = WireOff
          /\ initial = [NoInitial EXCEPT !.on = TRUE] /\ link = LinkOff

\* a fetchNotifications() call up to its await: the cache is read first
NewFetch(c) == [local |-> c, status |-> "sent", remote |-> <<>>]

\* setupAudioReminders(): r is whether this.reminderIntervalId is set and how
\* many reminder intervals there are
setupAudioReminders(cfg, r) ==
    IF cfg.audioReminder /\ ~r.handle THEN [handle |-> TRUE, timers |-> r.timers + 1]
    ELSE r
Reminders == [handle |-> reminderOn, timers |-> reminderTimers]

\* new NotiphyWidget(config), lines 44-92
Construct(opts) ==
    /\ phase = "unloaded"
    /\ LET initialConfig == Overlay(DefaultConfig, opts)
           cfg == EffectiveConfig(initialConfig)
           cleared == LocationChanged(cfg)
           c == IF cleared THEN <<>> ELSE cache
       IN /\ config' = cfg
          /\ cache' = c
          /\ lastFetched' = IF cleared THEN 0 ELSE lastFetched
          /\ settings' = Stored(cfg)
          /\ IF RequiredMissing(cfg)
             THEN /\ phase' = "rejected"
                  /\ UNCHANGED <<domCreated, refreshMs, reminderOn, reminderTimers,
                                 fetches>>
             ELSE /\ phase' = "running"
                  /\ domCreated' = TRUE
                  /\ refreshMs' = RefreshDelay(cfg.refreshInterval)
                  /\ LET r == setupAudioReminders(cfg, [Reminders EXCEPT !.handle = FALSE])
                     IN reminderOn' = r.handle /\ reminderTimers' = r.timers
                  /\ fetches' = <<NewFetch(c)>>
          /\ last' = [Quiet EXCEPT
                         !.did = IF cleared /\ cache # <<>> /\ lastFetched # 0
                                 THEN "cleared" ELSE "",
                         !.overrode = Overrode(opts, cfg)]
    /\ Remember
    /\ initial' =
          IF initial.on
          THEN [on |-> TRUE, aliased |-> ~settings.present,
                cfg |-> Overlay(DefaultConfig, opts)]
          ELSE initial
    /\ link' = [LinkOff EXCEPT !.on = link.on]
    /\ UNCHANGED <<modal, closeTimers, toasts, acked, place, panelVars>>
    /\ UNCHANGED <<inbox, elems, unreadCount, totalCount, socket, pendingAdds,
                   posts, markAllQ, dismissAllQ, srv>>

\* The page is left or reloaded: the document and every closure are gone;
\* localStorage, sessionStorage and the backend stay.
Reload ==
    /\ phase # "unloaded"
    /\ phase' = "unloaded"
    /\ config' = DefaultConfig
    /\ domCreated' = FALSE /\ inbox' = <<>> /\ elems' = NoElems
    /\ unreadCount' = 0 /\ totalCount' = 0 /\ socket' = "null" /\ refreshMs' = 0
    /\ pendingAdds' = <<>> /\ fetches' = <<>> /\ posts' = <<>>
    /\ markAllQ' = <<>> /\ dismissAllQ' = <<>> /\ reminderOn' = FALSE
    /\ modal' = NoModal /\ closeTimers' = 0 /\ toasts' = {} /\ acked' = {}
    /\ toast' = NoToasts /\ notificationsLoaded' = FALSE /\ centerOpen' = FALSE
    /\ reminderTimers' = 0
    /\ initial' = [NoInitial EXCEPT !.on = initial.on]
    /\ link' = [LinkOff EXCEPT !.on = link.on]
    /\ wire' = [wire EXCEPT !.got = {}, !.told = {}, !.idle = {}, !.stopped = {},
                            !.leaked = FALSE]
    /\ last' = [Quiet EXCEPT !.did = "unloaded"]
    /\ Remember
    /\ UNCHANGED <<settings, cache, lastFetched, srv, place>>

\* click on "Reset Settings": resetSettings() removes the three storage
\* items, copies this.initialConfig into this.config, saves it and calls
\* location.reload(); the page is then on its way out
ResetSettings ==
    /\ phase = "running" /\ initial.on
    /\ cache' = <<>> /\ lastFetched' = 0
    /\ config' = IF initial.aliased THEN config ELSE initial.cfg
    /\ settings' = Stored(config')
    /\ phase' = "leaving"
    /\ last' = [Quiet EXCEPT !.did = "reset"]
    /\ Remember
    /\ UNCHANGED otherVars
    /\ UNCHANGED <<reminderOn, domCreated, inbox, elems, unreadCount, totalCount,
                   socket, refreshMs, pendingAdds, fetches, posts, markAllQ, dismissAllQ,
                   srv>>

\* ------------------------------------------------------------------ helpers
Running == phase = "running"

\* requests in flight and timers pending, and whether k more may start
InFlight ==
    Len(fetches) + Len(posts) + Len(pendingAdds) + Len(markAllQ) + Len(dismissAllQ)
        + closeTimers
Room(k) == InFlight + k <= MaxInFlight

\* The environment sends nothing more to insert once the inbox, or a counter
\* that has drifted above it, has reached MaxInbox.
RoomInInbox ==
    Max(Len(inbox), Max(unreadCount, totalCount)) + Len(pendingAdds) < MaxInbox
Listening == Running /\ socket # "null"      \* setupEventListeners has run

\* getAttribute("data-notification-id") / dataset.notificationId: the id as
\* a string. Backend ids are strings already; the synthetic 0 becomes "0".
dataNotificationId(id) == IF id = ErrId THEN ErrIdAttr ELSE id

\* The elements closures hold after a handler, in the order posts, mark-all
\* timers, dismiss-all timers.
HeldSeq(p, mq, dq) ==
    LET IsDismiss(x) == x.kind = "dismiss"
        dp == SelectSeq(p, IsDismiss)
    IN [i \in 1..Len(dp) |-> dp[i].elem] \o mq \o dq

RECURSIVE Uniq(_, _)
Uniq(s, seen) ==
    IF s = <<>> THEN <<>>
    ELSE IF Head(s) \in seen THEN Uniq(Tail(s), seen)
    ELSE <<Head(s)>> \o Uniq(Tail(s), seen \cup {Head(s)})

\* The state after a handler: the DOM d, the POSTs p and the timer queues mq
\* and dq. An element's identity is only a name, so the elements are renamed:
\* the inbox entries 1..n from the top, then the detached ones that closures
\* still hold; elements nobody shows or holds are garbage.
Commit(d, p, mq, dq) ==
    LET order == d.inbox \o Uniq(HeldSeq(p, mq, dq), Range(d.inbox))
        ren(e) == CHOOSE k \in 1..Len(order) : order[k] = e
    IN /\ inbox' = [k \in 1..Len(d.inbox) |-> k]
       /\ elems' = [e \in Elems |-> IF e <= Len(order) THEN d.elems[order[e]]
                                     ELSE NoElem]
       /\ unreadCount' = d.unread
       /\ totalCount' = d.total
       /\ posts' = [i \in 1..Len(p) |->
                      IF p[i].kind = "dismiss" THEN [p[i] EXCEPT !.elem = ren(@)]
                      ELSE p[i]]
       /\ markAllQ' = [i \in 1..Len(mq) |-> ren(mq[i])]
       /\ dismissAllQ' = [i \in 1..Len(dq) |-> ren(dq[i])]

Post(kind, id, e) ==
    [kind |-> kind, id |-> id, elem |-> e, raced |-> FALSE]

\* markRead(notificationId, targetElement) up to its fetch
markReadDom(d, e) ==
    [d EXCEPT !.elems = [d.elems EXCEPT ![e] = [@ EXCEPT !.read = TRUE]],
              !.unread = Clamp(d.unread - 1)]

\* toggleAudioReminder(): flip config.audioReminder; the reminder interval
\* is set up when it is now on (kept if there is one) and cleared when off
toggleAudioReminder(cfg) == [cfg EXCEPT !.audioReminder = ~@]
\* the interval handle dropped without clearInterval
ReminderAfterToggleKept(cfg, r) ==
    IF cfg.audioReminder THEN setupAudioReminders(cfg, r)
    ELSE [handle |-> FALSE, timers |-> r.timers]
ReminderAfterToggle(cfg, r) ==
    IF cfg.audioReminder THEN setupAudioReminders(cfg, r)
    ELSE [handle |-> FALSE, timers |-> IF r.handle THEN r.timers - 1 ELSE r.timers]

\* toggleConnection(): socket.disconnect() or socket.connect()
toggleConnection == IF socket = "connected" THEN "disconnected" ELSE "connecting"

\* socket.disconnect() of a connected socket emits 'disconnect' before it
\* returns; socket.connect() emits nothing yet
toggleConnectionShown(l) ==
    IF socket = "connected" THEN updateConnectionStatus(l, "Offline") ELSE l

\* ----------------------------------------------------- the realtime channel
\* the socket.io script has loaded: onSocketIoLoaded()
OnSocketIoLoaded ==
    /\ Running /\ socket = "null"
    /\ socket' = "connecting"
    /\ last' = Quiet
    /\ Remember
    /\ UNCHANGED otherVars
    /\ UNCHANGED <<phase, reminderOn, settings, config, cache,
                   lastFetched, domCreated, inbox, elems, unreadCount, totalCount,
                   refreshMs, pendingAdds, fetches, posts, markAllQ, dismissAllQ, srv>>

\* socket 'connect': joinRoom, then await fetchNotifications()
OnConnect ==
    /\ Running /\ socket = "connecting"
    /\ Room(1)
    /\ socket' = "connected"
    /\ fetches' = Append(fetches, NewFetch(cache))
    /\ link' = connectAwaits(link, Len(fetches) + 1)
    /\ last' = Quiet
    /\ Remember
    /\ UNCHANGED restVars
    /\ UNCHANGED <<phase, reminderOn, settings, config, cache,
                   lastFetched, domCreated, inbox, elems, unreadCount, totalCount,
                   refreshMs, pendingAdds, posts, markAllQ, dismissAllQ, srv>>

\* the transport drops; socket.io will reconnect by itself. socket
\* 'disconnect': updateConnectionStatus("Offline")
OnDisconnect ==
    /\ Running /\ socket = "connected"
    /\ socket' = "connecting"
    /\ link' = updateConnectionStatus(link, "Offline")
    /\ last' = Quiet
    /\ Remember
    /\ UNCHANGED restVars
    /\ UNCHANGED <<phase, reminderOn, settings, config, cache,
                   lastFetched, domCreated, inbox, elems, unreadCount, totalCount,
                   refreshMs, pendingAdds, fetches, posts, markAllQ, dismissAllQ, srv>>

\* click on the connection indicator
ClickToggleConnection ==
    /\ Listening
    /\ socket' = toggleConnection
    /\ link' = toggleConnectionShown(link)
    /\ last' = Quiet
    /\ Remember
    /\ UNCHANGED restVars
    /\ UNCHANGED <<phase, reminderOn, settings, config, cache,
                   lastFetched, domCreated, inbox, elems, unreadCount, totalCount,
                   refreshMs, pendingAdds, fetches, posts, markAllQ, dismissAllQ, srv>>

\* handleNotification: the delay of the inbox insertion. A blocker goes to
\* the modal and leaves the delay at 0; otherwise the delay is toastDuration
\* when toasts are on.
InsertDelayAfterToast(level, toastAlert) ==
    IF toastAlert THEN ToastDuration * 1000 ELSE 0
InsertDelayNone(level, toastAlert) == 0
InsertDelay(level, toastAlert) ==
    IF level = "blocker" THEN 0
    ELSE IF toastAlert THEN ToastDuration * 1000 ELSE 0

\* showBlockerModal(notification): title and text are set, display = "block";
\* a fade-out class left by closeModal stays
showBlockerModal(id) == [modal EXCEPT !.shown = TRUE, !.id = id]

\* showToast(notification): the toast is in the toaster and the 10 ms timer
\* that adds "show" and starts the countdown is set
showToast(id) ==
    [toast EXCEPT ![id] = [NoToast EXCEPT !.showTimer = TRUE, !.style = TRUE,
                                          !.leaked = toast[id].style \/ toast[id].leaked]]

\* The backend publishes an id once: its notification event comes again only
\* when the toast of the last one and all its timers are gone and no closure
\* holds its dismiss control.
ToastRoom(id) ==
    (id \in Ids /\ config.toastAlert)
        => /\ id \notin toasts
           /\ [toast[id] EXCEPT !.style = FALSE, !.leaked = FALSE] = NoToast
           /\ \A e \in Referenced : ~(IsToast(elems[e]) /\ elems[e].id = id)

\* socket 'notification': handleNotification(notification). A published
\* notification arrives unread.
OnNotification(id) ==
    /\ Running /\ socket = "connected"
    /\ srv[id] # "none"
    /\ Room(1)
    /\ RoomInInbox
    /\ ToastRoom(id)
    /\ pendingAdds' = Append(pendingAdds,
                             [n |-> Note(id, FALSE),
                              delay |-> InsertDelay(alertLevel(id), config.toastAlert)])
    /\ IF alertLevel(id) = "blocker"
       THEN /\ modal' = showBlockerModal(id)
            /\ acked' = acked \ {id}
            /\ UNCHANGED <<toasts, toast, closeTimers>>
       ELSE /\ toasts' = IF config.toastAlert THEN toasts \cup {id} ELSE toasts
            /\ toast' = IF config.toastAlert THEN showToast(id) ELSE toast
            /\ UNCHANGED <<modal, closeTimers, acked>>
    /\ wire' = IF wire.on
               THEN [wire EXCEPT !.told = @ \ {id},
                                 !.got = IF srv[id] = "gone" THEN @ \ {id}
                                         ELSE @ \cup {id}]
               ELSE wire
    /\ UNCHANGED <<place, reminderTimers, initial, link, notificationsLoaded, centerOpen>>
    /\ last' = Did("notified", id, FALSE)
    /\ Remember
    /\ UNCHANGED <<phase, reminderOn, settings, config, cache, lastFetched,
                   domCreated, inbox, elems, unreadCount, totalCount, socket, refreshMs,
                   fetches, posts, markAllQ, dismissAllQ, srv>>

\* A timer set earlier fires first unless the later one has a shorter delay.
MayFire(i) == \A j \in 1..(i - 1) : pendingAdds[j].delay > pendingAdds[i].delay

\* the setTimeout callback of handleNotification: addToNotiphyCenter
InsertTimer(i) ==
    /\ Running /\ i \in 1..Len(pendingAdds) /\ MayFire(i)
    /\ pendingAdds' = RemoveAt(pendingAdds, i)
    /\ last' = Did("notified", pendingAdds[i].n.id, FALSE)
    /\ Remember
    /\ UNCHANGED otherVars
    /\ UNCHANGED <<phase, reminderOn, settings, config, cache,
                   lastFetched, domCreated, socket, refreshMs, fetches, srv>>
    /\ Commit(addToNotiphyCenter(Dom, pendingAdds[i].n), posts, markAllQ, dismissAllQ)

\* a handler without the early return on an empty selection
NoneTaggedSkipped(id) == FALSE

\* querySelectorAll(`[data-notification-id="${id}"]`) finds the two controls
\* of every inbox entry of the id and the dismiss control of its toast
NoneTagged(id) == Positions(Dom, id) = {} /\ id \notin toasts

\* Array.find for the mark-read control finds none when no inbox entry is
\* there, only the toast: reading markReadButton.classList throws a TypeError
NoMarkReadButton(id) == Positions(Dom, id) = {}

\* socket 'mark-read': handleMarkedReadNotification(id)
OnMarkReadEvent(id) ==
    /\ Running /\ socket = "connected"
    /\ srv[id] \in {"read", "gone"}
    /\ last' = IF NoneTagged(id) THEN Quiet
               ELSE IF NoMarkReadButton(id) THEN Did("threw", id, FALSE)
               ELSE IF elems[FirstElem(Dom, id)].read THEN Quiet
               ELSE IF unreadCount = 0 THEN Noted(TRUE)
               ELSE Did("lowered", id, FALSE)
    /\ Remember
    /\ wire' = IF wire.on /\ NoneTagged(id) THEN [wire EXCEPT !.idle = @ \cup {id}]
               ELSE wire
    /\ UNCHANGED <<modal, closeTimers, toasts, acked, place, reminderTimers, initial, link, toast,
                   notificationsLoaded, centerOpen>>
    /\ UNCHANGED <<phase, reminderOn, settings, config, lastFetched,
                   domCreated, socket, refreshMs, pendingAdds, fetches, srv>>
    /\ IF NoneTagged(id) \/ NoMarkReadButton(id)
       THEN UNCHANGED <<cache, inbox, elems, unreadCount, totalCount, posts,
                        markAllQ, dismissAllQ>>
       ELSE LET e == FirstElem(Dom, id)
                isRead == elems[e].read
            IN /\ cache' = updateLocalNotification(cache, id)
               /\ Commit([Dom EXCEPT
                            !.elems = [elems EXCEPT ![e] = [@ EXCEPT !.read = TRUE]],
                            !.unread = IF ~isRead THEN Clamp(unreadCount - 1)
                                       ELSE unreadCount],
                         posts, markAllQ, dismissAllQ)

\* the page had the notification when the dismiss event came: in the inbox,
\* as a toast, or waiting for its insertion
Received(id) ==
    \/ Positions(Dom, id) # {} \/ id \in toasts
    \/ \E i \in 1..Len(pendingAdds) : pendingAdds[i].n.id = id

\* socket 'dismiss': handleDismissedNotification(id). Every tagged control's
\* .notiphy-notification-element is removed, the toast included.
OnDismissEvent(id) ==
    /\ Running /\ socket = "connected"
    /\ srv[id] = "gone"
    /\ last' = IF NoneTagged(id) THEN Quiet
               ELSE IF NoMarkReadButton(id) THEN Did("threw", id, FALSE)
               ELSE Did("dismissed", id,
                        totalCount = 0 \/ (unreadCount = 0
                                            /\ ~elems[FirstElem(Dom, id)].read))
    /\ Remember
    /\ wire' = IF wire.on
               THEN footerLeaves(
                      [wire EXCEPT
                         !.told = IF id \in wire.got /\ Received(id) THEN @ \cup {id}
                                  ELSE @,
                         !.idle = IF NoneTagged(id) THEN @ \cup {id} ELSE @],
                      IF NoMarkReadButton(id) THEN {} ELSE {id})
               ELSE wire
    /\ UNCHANGED <<modal, closeTimers, acked, place, reminderTimers, initial, link,
                   notificationsLoaded, centerOpen>>
    /\ UNCHANGED <<phase, reminderOn, settings, config, lastFetched,
                   domCreated, socket, refreshMs, pendingAdds, fetches, srv>>
    /\ IF NoneTagged(id) \/ NoMarkReadButton(id)
       THEN UNCHANGED <<cache, inbox, elems, unreadCount, totalCount, posts,
                        markAllQ, dismissAllQ, toasts, toast>>
       ELSE LET e == FirstElem(Dom, id)
                isRead == elems[e].read
                gone == {inbox[i] : i \in Positions(Dom, id)}
            IN /\ cache' = removeLocalNotification(cache, id)
               /\ toasts' = toasts \ {id}
               /\ toast' = IF id \in toasts
                           THEN [toast EXCEPT ![id] = [@ EXCEPT !.hide = FALSE,
                                                                !.hover = FALSE]]
                           ELSE toast
               /\ Commit([Dom EXCEPT
                            !.inbox = Without(Dom, gone),
                            !.unread = IF ~isRead THEN Clamp(unreadCount - 1)
                                       ELSE unreadCount,
                            !.total = Clamp(totalCount - 1)],
                         [i \in 1..Len(posts) |->
                            IF posts[i].kind = "dismiss" /\ posts[i].elem \in gone
                            THEN [posts[i] EXCEPT !.raced = TRUE] ELSE posts[i]],
                         markAllQ, dismissAllQ)

\* ------------------------------------------------------------- user actions
\* click on an entry's mark-read control that is not "open": markRead()
ClickMarkRead(e) ==
    /\ Listening /\ e \in Range(inbox) /\ ~elems[e].read
    /\ Room(1)
    /\ last' = IF unreadCount = 0 THEN Noted(TRUE)
               ELSE Did("lowered", elems[e].id, FALSE)
    /\ Remember
    /\ UNCHANGED otherVars
    /\ UNCHANGED <<phase, reminderOn, settings, config, cache, lastFetched,
                   domCreated, socket, refreshMs, pendingAdds, fetches, srv>>
    /\ Commit(markReadDom(Dom, e),
              Append(posts, Post("mark", dataNotificationId(elems[e].id), 0)),
              markAllQ, dismissAllQ)

\* click on an entry's dismiss control: dismissNotification(); the listener
\* that updateNotificationFooter put on the control clears the interval
ClickDismiss(e) ==
    /\ Listening /\ e \in Range(inbox)
    /\ Room(1)
    /\ posts' = Append(posts, Post("dismiss", dataNotificationId(elems[e].id), e))
    /\ wire' = IF wire.on THEN [wire EXCEPT !.stopped = @ \cup {elems[e].id}] ELSE wire
    /\ last' = Quiet
    /\ Remember
    /\ UNCHANGED <<modal, closeTimers, toasts, acked, place, reminderTimers, initial, link, toast,
                   notificationsLoaded, centerOpen>>
    /\ UNCHANGED <<phase, reminderOn, settings, config, cache,
                   lastFetched, domCreated, inbox, elems, unreadCount, totalCount,
                   socket, refreshMs, pendingAdds, fetches, markAllQ, dismissAllQ, srv>>

\* markAllRead(): one staggered timer per mark-read button now in the inbox
ClickMarkAllRead ==
    /\ Listening /\ inbox # <<>> /\ markAllQ = <<>> /\ Room(Len(inbox))
    /\ markAllQ' = inbox
    /\ last' = Quiet
    /\ Remember
    /\ UNCHANGED otherVars
    /\ UNCHANGED <<phase, reminderOn, settings, config, cache,
                   lastFetched, domCreated, inbox, elems, unreadCount, totalCount,
                   socket, refreshMs, pendingAdds, fetches, posts, dismissAllQ, srv>>

\* a markAllRead timer: markRead() unless the entry is notiphy-read by now
MarkAllTimer ==
    /\ Running /\ markAllQ # <<>>
    /\ LET e == Head(markAllQ) IN
       /\ last' = IF elems[e].read THEN Quiet
                  ELSE IF unreadCount = 0 THEN Noted(TRUE)
                  ELSE Did("lowered", elems[e].id, FALSE)
       /\ Remember
       /\ UNCHANGED otherVars
       /\ UNCHANGED <<phase, reminderOn, settings, config, cache,
                      lastFetched, domCreated, socket, refreshMs, pendingAdds, fetches,
                      srv>>
       /\ IF elems[e].read
          THEN Commit(Dom, posts, Tail(markAllQ), dismissAllQ)
          ELSE Commit(markReadDom(Dom, e),
                      Append(posts, Post("mark", dataNotificationId(elems[e].id), 0)),
                      Tail(markAllQ), dismissAllQ)

\* dismissAllNotifications(): one staggered timer per dismiss button
ClickDismissAll ==
    /\ Listening /\ dismissAllQ = <<>>
    /\ inbox # <<>> \/ toasts # {}
    /\ Room(Len(inbox) + Cardinality(toasts))
    /\ LET t == toastButtons(Dom, toasts, <<>>)
       IN Commit([Dom EXCEPT !.elems = t.elems], posts, markAllQ, t.held \o inbox)
    /\ last' = Quiet
    /\ Remember
    /\ UNCHANGED otherVars
    /\ UNCHANGED <<phase, reminderOn, settings, config, cache,
                   lastFetched, domCreated, socket, refreshMs, pendingAdds, fetches, srv>>

\* a dismissAllNotifications timer: dismissNotification(id, button)
DismissAllTimer ==
    /\ Running /\ dismissAllQ # <<>>
    /\ LET e == Head(dismissAllQ) IN
       /\ Commit(Dom,
                 Append(posts, Post("dismiss", dataNotificationId(elems[e].id), e)),
                 markAllQ, Tail(dismissAllQ))
       /\ last' = Quiet
    /\ Remember
    /\ UNCHANGED otherVars
    /\ UNCHANGED <<phase, reminderOn, settings, config, cache,
                   lastFetched, domCreated, socket, refreshMs, pendingAdds, fetches,
                   srv>>

\* toggleToastAlert(): flip the setting and save the settings
ToggleToastAlert ==
    /\ Running
    /\ config' = [config EXCEPT !.toastAlert = ~@]
    /\ settings' = Stored(config')
    /\ last' = Quiet
    /\ Remember
    /\ UNCHANGED otherVars
    /\ UNCHANGED <<phase, reminderOn, cache, lastFetched,
                   domCreated, inbox, elems, unreadCount, totalCount, socket, refreshMs,
                   pendingAdds, fetches, posts, markAllQ, dismissAllQ, srv>>

\* click on the reminder button: toggleAudioReminder()
ClickAudioReminder ==
    /\ Running
    /\ config' = toggleAudioReminder(config)
    /\ reminderOn' = ReminderAfterToggle(config', Reminders).handle
    /\ reminderTimers' = ReminderAfterToggle(config', Reminders).timers
    /\ settings' = Stored(config')
    /\ last' = Quiet
    /\ Remember
    /\ UNCHANGED <<modal, closeTimers, toasts, acked, place, panelVars, initial, link>>
    /\ UNCHANGED <<phase, cache, lastFetched, domCreated, inbox,
                   elems, unreadCount, totalCount, socket, refreshMs, pendingAdds,
                   fetches, posts, markAllQ, dismissAllQ, srv>>

\* a reminder that plays whatever the unread count is
playReminderSoundAnyCount(unread, audioReminder, audioAlert) ==
    IF ~audioReminder THEN "" ELSE IF audioAlert THEN "audible" ELSE "silent"

\* playReminderSound(): the cue played for the displayed unread count,
\* config.audioReminder and config.audioAlert
playReminderSound(unread, audioReminder, audioAlert) ==
    IF Max(0, unread) = 0 THEN ""
    ELSE IF ~audioReminder THEN ""
    ELSE IF audioAlert THEN "audible" ELSE "silent"

\* the setInterval callback of setupAudioReminders, with config.audioAlert as
\* the sound button has left it
ReminderTick(audioAlert) ==
    /\ Running /\ reminderOn
    /\ last' = [Quiet EXCEPT
                   !.did = playReminderSound(unreadCount, config.audioReminder, audioAlert)]
    /\ Remember
    /\ UNCHANGED otherVars
    /\ UNCHANGED <<phase, reminderOn, settings, config, cache, lastFetched,
                   domCreated, inbox, elems, unreadCount, totalCount, socket, refreshMs,
                   pendingAdds, fetches, posts, markAllQ, dismissAllQ, srv>>

\* ------------------------------------------- the blocker modal, the toaster
\* click on the modal's close or dismiss button: closeModal() adds fade-out
\* and sets the 500 ms timer
ClickCloseModal ==
    /\ Running /\ modal.shown
    /\ Room(1)
    /\ modal' = [modal EXCEPT !.fading = TRUE]
    /\ closeTimers' = closeTimers + 1
    /\ acked' = acked \cup {modal.id}
    /\ last' = Quiet
    /\ Remember
    /\ UNCHANGED <<phase, reminderOn, settings, config, cache, lastFetched,
                   domCreated, inbox, elems, unreadCount, totalCount, socket, refreshMs,
                   pendingAdds, fetches, posts, markAllQ, dismissAllQ, srv, toasts,
                   place, reminderTimers, initial, link, panelVars>>

\* the setTimeout callback of closeModal: display = "none", fade-out removed
CloseModalTimer ==
    /\ Running /\ closeTimers > 0
    /\ modal' = [modal EXCEPT !.shown = FALSE, !.fading = FALSE]
    /\ closeTimers' = closeTimers - 1
    /\ last' = Quiet
    /\ Remember
    /\ UNCHANGED <<phase, reminderOn, settings, config, cache, lastFetched,
                   domCreated, inbox, elems, unreadCount, totalCount, socket, refreshMs,
                   pendingAdds, fetches, posts, markAllQ, dismissAllQ, srv, toasts,
                   acked, place, reminderTimers, initial, link, panelVars>>

\* a toast step that drops the insertions still to come
ToastFrameCancels ==
    /\ last' = Quiet
    /\ Remember
    /\ pendingAdds' = <<>>
    /\ UNCHANGED <<phase, reminderOn, settings, config, cache, lastFetched,
                   domCreated, inbox, elems, unreadCount, totalCount, socket, refreshMs,
                   fetches, posts, markAllQ, dismissAllQ, srv, modal,
                   closeTimers, acked, place, reminderTimers, initial, link, wire,
                   notificationsLoaded, centerOpen>>

\* What a toast step leaves alone.
ToastFrame ==
    /\ last' = Quiet
    /\ Remember
    /\ UNCHANGED <<phase, reminderOn, settings, config, cache, lastFetched,
                   domCreated, inbox, elems, unreadCount, totalCount, socket, refreshMs,
                   pendingAdds, fetches, posts, markAllQ, dismissAllQ, srv, modal,
                   closeTimers, acked, place, reminderTimers, initial, link, wire,
                   notificationsLoaded, centerOpen>>

\* toastTimeout = setTimeout(...): the variable now refers to the new timer;
\* a timer it referred to before stays pending with nothing referring to it
armCountdown(t) ==
    [t EXCEPT !.armed = TRUE, !.orphans = IF t.armed THEN @ + 1 ELSE @]

\* the 10 ms timer of showToast: "show" is added and the countdown starts
ToastShowTimer(id) ==
    /\ Running /\ toast[id].showTimer
    /\ toast' = [toast EXCEPT ![id] = armCountdown([@ EXCEPT !.showTimer = FALSE])]
    /\ UNCHANGED toasts
    /\ ToastFrame

\* the countdown that toastTimeout refers to ends: "hide" is added and the
\* 300 ms removal timer is set
ToastCountdown(id) ==
    /\ Running /\ toast[id].armed /\ toast[id].removers < MaxToastTimers
    /\ toast' = [toast EXCEPT ![id] = [@ EXCEPT !.armed = FALSE, !.hide = TRUE,
                                                !.removers = @ + 1]]
    /\ UNCHANGED toasts
    /\ ToastFrame

\* a countdown that toastTimeout no longer refers to ends
ToastOrphanCountdown(id) ==
    /\ Running /\ toast[id].orphans > 0 /\ toast[id].removers < MaxToastTimers
    /\ toast' = [toast EXCEPT ![id] = [@ EXCEPT !.orphans = @ - 1, !.hide = TRUE,
                                                !.removers = @ + 1]]
    /\ UNCHANGED toasts
    /\ ToastFrame

\* a toast leaves the toaster: the 300 ms removal timer of a countdown,
\* toaster.removeChild (which throws when the toast has left already) and
\* then the removal of its <style> element. The classes and the pointer
\* state of a toast that has left play no part.
ToastRemoved(id) ==
    /\ Running /\ toast[id].removers > 0
    /\ toasts' = toasts \ {id}
    /\ toast' = [toast EXCEPT ![id] = [@ EXCEPT !.removers = @ - 1,
                                                !.hide = FALSE, !.hover = FALSE,
                                                !.style = @ /\ id \notin toasts]]
    /\ ToastFrame

\* 'mouseenter' on the toast: clearTimeout(toastTimeout), "paused" is added
MouseEnter(id) ==
    /\ Running /\ id \in toasts /\ ~toast[id].hover
    /\ toast' = [toast EXCEPT ![id] = [@ EXCEPT !.hover = TRUE, !.armed = FALSE]]
    /\ UNCHANGED toasts
    /\ ToastFrame

\* 'mouseleave' on the toast: "paused" and "hide" are removed and a countdown
\* for the remaining time is set
MouseLeave(id) ==
    /\ Running /\ id \in toasts /\ toast[id].hover
    /\ toast' = [toast EXCEPT ![id] =
                    armCountdown([@ EXCEPT !.hover = FALSE, !.hide = FALSE])]
    /\ UNCHANGED toasts
    /\ ToastFrame

\* click on the dismiss control of a toast: dismissToast(toastElement) adds
\* "hide" and sets its own 300 ms timer
ClickDismissToast(id) ==
    /\ Listening /\ id \in toasts
    /\ toast[id].dismissers + toast[id].removers < MaxToastTimers
    /\ toast' = [toast EXCEPT ![id] = [@ EXCEPT !.hide = TRUE, !.dismissers = @ + 1]]
    /\ UNCHANGED toasts
    /\ ToastFrame

\* the timer of dismissToast: the toast is removed if it is still there
DismissToastTimer(id) ==
    /\ Running /\ toast[id].dismissers > 0
    /\ toasts' = toasts \ {id}
    /\ toast' = [toast EXCEPT ![id] = [@ EXCEPT !.dismissers = @ - 1,
                                                !.hide = FALSE, !.hover = FALSE]]
    /\ ToastFrame

\* ----------------------------------------------- mark-read / dismiss POSTs
\* What the backend holds for the id once it has applied a POST.
Applied(kind, id) ==
    [x \in NoteIds |->
        IF x # id THEN srv[x]
        ELSE IF kind = "mark"
             THEN (IF srv[x] = "unread" THEN "read" ELSE srv[x])
             ELSE (IF srv[x] \in {"unread", "read"} THEN "gone" ELSE srv[x])]

\* this.socket.emit(event, notificationId) in a .then handler, which runs on
\* the answer of the POST whether or not the backend applied it (ok)
emit(event, id, ok) ==
    IF wire.on THEN [wire EXCEPT !.out = @ \cup {[event |-> event, id |-> id, ok |-> ok]}]
    ELSE wire

\* the request or its answer is lost (fetch rejects): no .then runs
PostLost(i) ==
    /\ Running /\ i \in 1..Len(posts)
    /\ last' = Quiet
    /\ Remember
    /\ UNCHANGED otherVars
    /\ UNCHANGED <<phase, reminderOn, settings, config, cache,
                   lastFetched, domCreated, socket, refreshMs, pendingAdds, fetches,
                   srv>>
    /\ Commit(Dom, RemoveAt(posts, i), markAllQ, dismissAllQ)

\* .then((data) => ...) of markRead: runs on any JSON answer, whether the
\* backend applied the POST (ok) or refused it with an error body
MarkReadThen(i, ok) ==
    /\ Running /\ i \in 1..Len(posts)
    /\ posts[i].kind = "mark"
    /\ srv' = IF ok THEN Applied("mark", posts[i].id) ELSE srv
    /\ posts' = RemoveAt(posts, i)
    /\ cache' = updateLocalNotification(cache, posts[i].id)
    /\ wire' = emit("markReadNotification", posts[i].id, ok)
    /\ last' = Quiet
    /\ Remember
    /\ UNCHANGED <<modal, closeTimers, toasts, acked, place, reminderTimers, initial, link, toast,
                   notificationsLoaded, centerOpen>>
    /\ UNCHANGED <<phase, reminderOn, settings, config, lastFetched,
                   domCreated, inbox, elems, unreadCount, totalCount, socket, refreshMs,
                   pendingAdds, fetches, markAllQ, dismissAllQ>>

\* .then((data) => ...) of dismissNotification: runs on any JSON answer
DismissThen(i, ok) ==
    /\ Running /\ i \in 1..Len(posts)
    /\ posts[i].kind = "dismiss"
    /\ srv' = IF ok THEN Applied("dismiss", posts[i].id) ELSE srv
    /\ LET e == posts[i].elem
           gone == {e}
       IN /\ cache' = removeLocalNotification(cache, posts[i].id)
          /\ last' = LET hitZero == totalCount = 0 \/ (unreadCount = 0 /\ ~elems[e].read)
                     IN IF ok THEN Did("dismissed", posts[i].id, hitZero)
                        ELSE Noted(hitZero)
          /\ Remember
          /\ wire' = footerLeaves(emit("dismissNotification", posts[i].id, ok),
                                   {elems[x].id : x \in gone \cap Range(inbox)})
          /\ toasts' = IF IsToast(elems[e]) THEN toasts \ {elems[e].id} ELSE toasts
          /\ UNCHANGED <<modal, closeTimers, acked, place, reminderTimers, initial,
                         link, toast, notificationsLoaded, centerOpen>>
          /\ UNCHANGED <<phase, reminderOn, settings, config, lastFetched,
                         domCreated, socket, refreshMs, pendingAdds, fetches>>
          /\ Commit([Dom EXCEPT
                       !.total = Clamp(totalCount - 1),
                       !.unread = IF ~elems[e].read THEN Clamp(unreadCount - 1)
                                  ELSE unreadCount,
                       !.inbox = Without(Dom, gone)],
                    RemoveAt(posts, i), markAllQ, dismissAllQ)

\* ------------------------------------------------------- fetchNotifications
\* the setInterval callback of setupPeriodicRefresh
PeriodicRefresh ==
    /\ Running /\ refreshMs # 0
    /\ Room(1)
    /\ fetches' = Append(fetches, NewFetch(cache))
    /\ last' = Quiet
    /\ Remember
    /\ UNCHANGED otherVars
    /\ UNCHANGED <<phase, reminderOn, settings, config, cache,
                   lastFetched, domCreated, inbox, elems, unreadCount, totalCount,
                   socket, refreshMs, pendingAdds, posts, markAllQ, dismissAllQ, srv>>

\* the backend answers the listing request with what it holds now
SrvAnswerFetch(i, r) ==
    /\ i \in 1..Len(fetches) /\ fetches[i].status = "sent"
    /\ r \in Responses
    /\ fetches' = [fetches EXCEPT ![i].status = "ok", ![i].remote = r]
    /\ last' = Quiet
    /\ Remember
    /\ UNCHANGED otherVars
    /\ UNCHANGED <<phase, reminderOn, settings, config, cache,
                   lastFetched, domCreated, inbox, elems, unreadCount, totalCount,
                   socket, refreshMs, pendingAdds, posts, markAllQ, dismissAllQ, srv>>

\* fetch() rejects or the body is no JSON: the catch block only logs
FetchLost(i) ==
    /\ Running /\ i \in 1..Len(fetches)
    /\ fetches' = RemoveAt(fetches, i)
    /\ link' = fetchSettled(link, i)
    /\ last' = Quiet
    /\ Remember
    /\ UNCHANGED restVars
    /\ UNCHANGED <<phase, reminderOn, settings, config, cache,
                   lastFetched, domCreated, inbox, elems, unreadCount, totalCount,
                   socket, refreshMs, pendingAdds, posts, markAllQ, dismissAllQ, srv>>

\* toggleNotificationCenter(): the class "open" is removed or added
toggleNotificationCenter == ~centerOpen

\* click on the widget icon or on the close button of the inbox
ClickToggleCenter ==
    /\ Running
    /\ centerOpen' = toggleNotificationCenter
    /\ last' = Quiet
    /\ Remember
    /\ UNCHANGED <<phase, reminderOn, settings, config, cache, lastFetched,
                   domCreated, inbox, elems, unreadCount, totalCount, socket, refreshMs,
                   pendingAdds, fetches, posts, markAllQ, dismissAllQ, srv, modal,
                   closeTimers, toasts, acked, place, reminderTimers, initial, link, toast, wire,
                   notificationsLoaded>>

\* if (!this.notificationsLoaded && this.config.showInboxOnLoad)
ShowsInboxEveryTime(loaded, cfg) == cfg.showInboxOnLoad
ShowsInbox(loaded, cfg) == ~loaded /\ cfg.showInboxOnLoad

\* response.ok: merge, save, clear and repopulate, show the inbox the first
\* time, advance the watermark
FetchThen(i) ==
    /\ Running /\ i \in 1..Len(fetches) /\ fetches[i].status = "ok"
    /\ LET merged == mergeNotifications(fetches[i].local, fetches[i].remote) IN
       /\ fetches' = RemoveAt(fetches, i)
       /\ cache' = merged
       /\ lastFetched' = 1
       /\ centerOpen' = IF ShowsInbox(notificationsLoaded, config)
                        THEN toggleNotificationCenter ELSE centerOpen
       /\ notificationsLoaded' = TRUE
       /\ last' = [Quiet EXCEPT !.did = "merged"]
       /\ Remember
       /\ wire' = footerLeaves(wire, {elems[x].id : x \in Range(inbox)})
       /\ link' = fetchSettled(link, i)
       /\ UNCHANGED <<modal, closeTimers, toasts, acked, place, reminderTimers, initial, toast>>
       /\ UNCHANGED <<phase, reminderOn, settings, config,
                      domCreated, socket, refreshMs, pendingAdds, srv>>
       /\ Commit(Rebuild(Dom, merged), posts, markAllQ, dismissAllQ)

\* the notification object of the !response.ok branch: id 0, read false
errorNotificationRead == Note(ErrId, TRUE)
errorNotification == Note(ErrId, FALSE)

\* The backend answers with a non-2xx status. !response.ok: add the synthetic
\* error notification, toggleConnection(); with no socket yet that call throws
\* into the catch block
FetchFailThen(i) ==
    /\ Running /\ i \in 1..Len(fetches) /\ fetches[i].status = "sent"
    /\ RoomInInbox
    /\ fetches' = RemoveAt(fetches, i)
    /\ socket' = IF socket = "null" THEN socket ELSE toggleConnection
    /\ link' = fetchSettled(IF socket = "null" THEN link ELSE toggleConnectionShown(link), i)
    /\ IF socket # "null" /\ config.audioReminder
       THEN /\ config' = toggleAudioReminder(config)
            /\ reminderOn' = ReminderAfterToggle(config', Reminders).handle
            /\ reminderTimers' = ReminderAfterToggle(config', Reminders).timers
            /\ settings' = Stored(config')
       ELSE UNCHANGED <<config, reminderOn, reminderTimers, settings>>
    /\ last' = Quiet
    /\ Remember
    /\ UNCHANGED <<modal, closeTimers, toasts, acked, place, panelVars, initial>>
    /\ UNCHANGED <<phase, cache, lastFetched, domCreated, refreshMs,
                   pendingAdds, srv>>
    /\ Commit(addToNotiphyCenter(Dom, errorNotification), posts, markAllQ, dismissAllQ)

\* -------------------------------------------------- the rest of the world
\* a notification is published for this subscriber and location
SrvPublish(id) ==
    /\ srv[id] = "none"
    /\ srv' = [srv EXCEPT ![id] = "unread"]
    /\ last' = Quiet
    /\ Remember
    /\ UNCHANGED otherVars
    /\ UNCHANGED <<phase, reminderOn, settings, config, cache,
                   lastFetched, domCreated, inbox, elems, unreadCount, totalCount,
                   socket, refreshMs, pendingAdds, fetches, posts, markAllQ,
                   dismissAllQ>>

\* a sibling widget marks it read
SiblingMarkRead(id) ==
    /\ srv[id] = "unread"
    /\ srv' = [srv EXCEPT ![id] = "read"]
    /\ last' = Quiet
    /\ Remember
    /\ UNCHANGED otherVars
    /\ UNCHANGED <<phase, reminderOn, settings, config, cache,
                   lastFetched, domCreated, inbox, elems, unreadCount, totalCount,
                   socket, refreshMs, pendingAdds, fetches, posts, markAllQ,
                   dismissAllQ>>

\* a sibling widget dismisses it, or it expires
SiblingDismiss(id) ==
    /\ srv[id] \in {"unread", "read"}
    /\ srv' = [srv EXCEPT ![id] = "gone"]
    /\ last' = Quiet
    /\ Remember
    /\ UNCHANGED otherVars
    /\ UNCHANGED <<phase, reminderOn, settings, config, cache,
                   lastFetched, domCreated, inbox, elems, unreadCount, totalCount,
                   socket, refreshMs, pendingAdds, fetches, posts, markAllQ,
                   dismissAllQ>>

\* ------------------------------------------------------------ specification
\* what the embedding page passes to the constructor
PageOptions ==
    {[given |-> {"subscriberId", "widgetKey", "refreshInterval"},
      val |-> [DefaultConfig EXCEPT !.subscriberId = "sub", !.widgetKey = "key",
                                    !.refreshInterval = 60]]}

Environment ==
    \/ \E id \in Ids : SrvPublish(id)
    \/ \E id \in Ids : SiblingMarkRead(id)
    \/ \E id \in Ids : SiblingDismiss(id)
    \/ \E i \in 1..MaxInFlight : PostLost(i)
    \/ \E i \in 1..MaxInFlight : \E r \in Responses : SrvAnswerFetch(i, r)
    \/ \E i \in 1..MaxInFlight : FetchLost(i)

Handlers ==
    \/ OnSocketIoLoaded
    \/ OnConnect
    \/ OnDisconnect
    \/ \E id \in Ids : OnNotification(id)
    \/ \E i \in 1..MaxInFlight : InsertTimer(i)
    \/ \E id \in Ids : OnMarkReadEvent(id)
    \/ \E id \in Ids : OnDismissEvent(id)
    \/ \E i \in 1..MaxInFlight : \E ok \in BOOLEAN : MarkReadThen(i, ok)
    \/ \E i \in 1..MaxInFlight : \E ok \in BOOLEAN : DismissThen(i, ok)
    \/ \E i \in 1..MaxInFlight : FetchThen(i)
    \/ \E i \in 1..MaxInFlight : FetchFailThen(i)
    \/ PeriodicRefresh
    \/ MarkAllTimer
    \/ DismissAllTimer

User ==
    \/ ClickToggleConnection
    \/ \E e \in Elems : ClickMarkRead(e)
    \/ \E e \in Elems : ClickDismiss(e)
    \/ ClickMarkAllRead
    \/ ClickDismissAll

Next ==
    \/ \E opts \in PageOptions : Construct(opts)
    \/ Environment
    \/ Handlers
    \/ User

Spec == Init /\ [][Next]_vars

\* the same behaviours with the history kept
SpecHistory == InitHistory /\ [][Next]_vars

\* ------------------------------------------- construction and the settings
\* What a page can pass to the constructor: any subset of the options, the
\* refresh interval from around the lower limit, one of two locations.
RefreshIntervals == {0, 1, 60, 299, 300, 600}
Locations == {"default", "store-2"}
Given ==
    [subscriberId |-> "sub", widgetKey |-> "key", locationId |-> "default",
     refreshInterval |-> 60, toastAlert |-> TRUE, audioReminder |-> TRUE,
     showInboxOnLoad |-> TRUE]
CallerOptions ==
    {[given |-> g,
      val |-> [Given EXCEPT
                 !.refreshInterval = IF "refreshInterval" \in g THEN r ELSE @,
                 !.locationId = IF "locationId" \in g THEN l ELSE @]] :
        g \in SUBSET Fields, r \in RefreshIntervals, l \in Locations}

NextConfig ==
    \/ \E opts \in CallerOptions : Construct(opts)
    \/ Reload
    \/ ToggleToastAlert
    \/ ClickAudioReminder
    \/ OnSocketIoLoaded
    \/ PeriodicRefresh
    \/ \E id \in Ids : SrvPublish(id)
    \/ \E i \in 1..MaxInFlight : \E r \in Responses : SrvAnswerFetch(i, r)
    \/ \E i \in 1..MaxInFlight : FetchThen(i)
SpecConfig == Init /\ [][NextConfig]_vars

\* ------------------------------------------------------ blocker notifications
\* Realtime delivery of blocker and ordinary notifications, with toasts on or
\* off, the modal and its close timer, and the fetch that renders the inbox.
AlertOptions ==
    {[given |-> {"subscriberId", "widgetKey", "toastAlert"},
      val |-> [DefaultConfig EXCEPT !.subscriberId = "sub", !.widgetKey = "key",
                                    !.toastAlert = t]] : t \in BOOLEAN}

NextAlert ==
    \/ \E opts \in AlertOptions : Construct(opts)
    \/ OnSocketIoLoaded
    \/ OnConnect
    \/ \E id \in NoteIds : SrvPublish(id)
    \/ \E id \in NoteIds : OnNotification(id)
    \/ \E i \in 1..MaxInFlight : InsertTimer(i)
    \/ ClickCloseModal
    \/ CloseModalTimer
    \/ \E id \in Ids : ToastShowTimer(id)
    \/ \E id \in Ids : ToastCountdown(id)
    \/ \E id \in Ids : ToastRemoved(id)
    \/ \E i \in 1..MaxInFlight : \E r \in Responses : SrvAnswerFetch(i, r)
    \/ \E i \in 1..MaxInFlight : FetchThen(i)
SpecAlert == Init /\ [][NextAlert]_vars

\* setTimeout: the oldest pending timer of handleNotification does fire
SpecAlertLive == SpecAlert /\ WF_vars(InsertTimer(1))

\* -------------------------------------------------- locations and other tabs
\* The backend lists, for the locationId of the request, the notifications
\* published for that location.
SrvPublishAt(id, l) ==
    /\ srv[id] = "none"
    /\ srv' = [srv EXCEPT ![id] = "unread"]
    /\ place' = [place EXCEPT ![id] = l]
    /\ last' = Quiet
    /\ Remember
    /\ UNCHANGED <<phase, reminderOn, settings, config, cache,
                   lastFetched, domCreated, inbox, elems, unreadCount, totalCount,
                   socket, refreshMs, pendingAdds, fetches, posts, markAllQ,
                   dismissAllQ, modal, closeTimers, toasts, acked, panelVars,
                   reminderTimers, initial, link>>

ResponsesAt(l) ==
    {Ascending(S) : S \in SUBSET {id \in NoteIds : srv[id] # "none" /\ place[id] = l}}

SrvAnswerFetchAt(i, r) ==
    /\ Running /\ r \in ResponsesAt(config.locationId)
    /\ SrvAnswerFetch(i, r)

\* The constructor runs in another tab of the same origin, lines 66-70 there:
\* localStorage is shared, that tab's sessionStorage and document are its own.
SiblingTabInit(opts) ==
    /\ LET initialConfig == Overlay(DefaultConfig, opts)
           cfg == EffectiveConfig(initialConfig)
       IN /\ settings' = Stored(cfg)
          /\ lastFetched' = IF LocationChanged(cfg) THEN 0 ELSE lastFetched
    /\ last' = Quiet
    /\ Remember
    /\ UNCHANGED otherVars
    /\ UNCHANGED <<phase, reminderOn, config, cache, domCreated, inbox, elems,
                   unreadCount, totalCount, socket, refreshMs, pendingAdds, fetches,
                   posts, markAllQ, dismissAllQ, srv>>

LocationOptions ==
    {[given |-> {"subscriberId", "widgetKey", "locationId"},
      val |-> [DefaultConfig EXCEPT !.subscriberId = "sub", !.widgetKey = "key",
                                    !.locationId = l]] : l \in Locations}

NextLocation ==
    \/ \E opts \in LocationOptions : Construct(opts)
    \/ Reload
    \/ \E opts \in LocationOptions : SiblingTabInit(opts)
    \/ \E id \in NoteIds : \E l \in Locations : SrvPublishAt(id, l)
    \/ \E i \in 1..MaxInFlight : \E r \in Responses : SrvAnswerFetchAt(i, r)
    \/ \E i \in 1..MaxInFlight : FetchThen(i)
SpecLocation == Init /\ [][NextLocation]_vars

\* ------------------------------------------------------------- failed fetches
\* Fetches that the backend refuses, with the socket in any of its states and
\* the audio reminder on or off.
FailureOptions ==
    {[given |-> {"subscriberId", "widgetKey", "refreshInterval", "audioReminder",
                 "showInboxOnLoad"},
      val |-> [DefaultConfig EXCEPT !.subscriberId = "sub", !.widgetKey = "key",
                                    !.refreshInterval = 60, !.audioReminder = a,
                                    !.showInboxOnLoad = o]] :
        a \in BOOLEAN, o \in BOOLEAN}

NextFailure ==
    \/ \E opts \in FailureOptions : Construct(opts)
    \/ OnSocketIoLoaded
    \/ OnConnect
    \/ OnDisconnect
    \/ ClickToggleConnection
    \/ ClickAudioReminder
    \/ ClickToggleCenter
    \/ \E a \in BOOLEAN : ReminderTick(a)
    \/ PeriodicRefresh
    \/ \E i \in 1..MaxInFlight : \E r \in Responses : SrvAnswerFetch(i, r)
    \/ \E i \in 1..MaxInFlight : FetchThen(i)
    \/ \E i \in 1..MaxInFlight : FetchFailThen(i)
SpecFailure == Init /\ [][NextFailure]_vars

\* ------------------------------------------------------------ sibling widgets
\* One page among the widgets of a subscriber: notifications arrive as events
\* and by fetch, with toasts on or off; the siblings mark read and dismiss
\* and the user dismisses toasts; the history of the realtime traffic is kept.
NextSibling ==
    \/ \E opts \in AlertOptions : Construct(opts)
    \/ OnSocketIoLoaded
    \/ OnConnect
    \/ \E id \in Ids : SrvPublish(id)
    \/ \E id \in Ids : SiblingMarkRead(id)
    \/ \E id \in Ids : SiblingDismiss(id)
    \/ \E id \in Ids : OnNotification(id)
    \/ \E i \in 1..MaxInFlight : InsertTimer(i)
    \/ \E id \in Ids : ToastShowTimer(id)
    \/ \E id \in Ids : ToastCountdown(id)
    \/ \E id \in Ids : ToastRemoved(id)
    \/ \E id \in Ids : ClickDismissToast(id)
    \/ \E id \in Ids : DismissToastTimer(id)
    \/ \E id \in Ids : OnMarkReadEvent(id)
    \/ \E id \in Ids : OnDismissEvent(id)
    \/ \E i \in 1..MaxInFlight : \E r \in Responses : SrvAnswerFetch(i, r)
    \/ \E i \in 1..MaxInFlight : FetchThen(i)
SpecSibling == InitWire /\ [][NextSibling]_vars

\* The user's mark-read and dismiss calls and what the page emits after them.
NextEmit ==
    \/ \E opts \in PageOptions : Construct(opts)
    \/ OnSocketIoLoaded
    \/ OnConnect
    \/ \E id \in Ids : SrvPublish(id)
    \/ \E e \in Elems : ClickMarkRead(e)
    \/ \E e \in Elems : ClickDismiss(e)
    \/ \E i \in 1..MaxInFlight : \E ok \in BOOLEAN : MarkReadThen(i, ok)
    \/ \E i \in 1..MaxInFlight : \E ok \in BOOLEAN : DismissThen(i, ok)
    \/ \E i \in 1..MaxInFlight : PostLost(i)
    \/ \E i \in 1..MaxInFlight : \E r \in Responses : SrvAnswerFetch(i, r)
    \/ \E i \in 1..MaxInFlight : FetchThen(i)
SpecEmit == InitWire /\ [][NextEmit]_vars

\* ------------------------------------------------------------ the merge alone
\* Every cached list with distinct ids out of MaxMergeIds and every response
\* of up to MaxRemote entries, in any order and with repeated ids, as a fetch
\* that has been answered and is about to resume.
MergeIds == 1..MaxMergeIds
Notes == {Note(id, rd) : id \in MergeIds, rd \in BOOLEAN}
Remotes == {Remote(id, rd, ds) : id \in MergeIds, rd \in BOOLEAN, ds \in BOOLEAN}
LocalLists ==
    {l \in UNION {[1..n -> Notes] : n \in 0..MaxMergeIds} :
        \A i, j \in 1..Len(l) : l[i].id = l[j].id => i = j}
RemoteLists == UNION {[1..n -> Remotes] : n \in 0..MaxRemote}

InitMerge ==
    /\ phase = "running"
    /\ initial = NoInitial /\ link = LinkOff
    /\ config = Overlay(DefaultConfig, CHOOSE opts \in PageOptions : TRUE)
    /\ settings = Stored(config)
    /\ lastFetched = 0
    /\ domCreated = TRUE /\ inbox = <<>> /\ elems = NoElems
    /\ unreadCount = 0 /\ totalCount = 0 /\ socket = "null"
    /\ refreshMs = RefreshDelay(config.refreshInterval)
    /\ pendingAdds = <<>> /\ posts = <<>>
    /\ markAllQ = <<>> /\ dismissAllQ = <<>> /\ reminderOn = FALSE
    /\ modal = NoModal /\ closeTimers = 0 /\ toasts = {} /\ acked = {}
    /\ toast = NoToasts /\ notificationsLoaded = FALSE /\ centerOpen = FALSE
    /\ reminderTimers = 0
    /\ wire = WireOff
    /\ srv = [id \in NoteIds |-> "unread"]
    /\ place = [id \in NoteIds |-> Null]
    /\ last = Quiet
    /\ recording = FALSE
    /\ dismissed = {}
    /\ lowered = {}
    /\ \E l \in LocalLists : \E r \in RemoteLists :
          /\ cache = l
          /\ fetches = <<[local |-> l, status |-> "ok", remote |-> r]>>

NextMerge == \E i \in 1..MaxInFlight : FetchThen(i)
SpecMerge == InitMerge /\ [][NextMerge]_vars

\* --------------------------------------------------------------- properties
\* the entries the inbox shows for an id, the unread ones, and what is queued
ShownFor(id) == {e \in Range(inbox) : elems[e].id = id}
UnreadShown == {e \in Range(inbox) : ~elems[e].read}
ShownSet == {elems[e] : e \in Range(inbox)}
AddPending(id) == \E i \in 1..Len(pendingAdds) : pendingAdds[i].n.id = id
MarkInFlight(id) == \E i \in 1..Len(posts) : posts[i].kind = "mark" /\ posts[i].id = id
CachedUnread(id) == \E i \in 1..Len(cache) : cache[i].id = id /\ ~cache[i].read
Cached(id) == \E i \in 1..Len(cache) : cache[i].id = id

\* C1: between handlers the displayed total count is the number of inbox
\* entries and the displayed unread count is the number of unread entries.
CountersMatchInbox ==
    Running => /\ totalCount = Len(inbox)
               /\ unreadCount = Cardinality(UnreadShown)

\* C2: the displayed unread count and total count are never negative, also
\* when a decrement meets a counter that is already zero.
CountersNeverNegative == unreadCount >= 0 /\ totalCount >= 0

\* a decrement has just met a counter at zero and the counter is still zero
ClampedAtZero == last.clamped /\ (unreadCount = 0 \/ totalCount = 0)

\* C3: the inbox holds at most one entry per notification id.
OneEntryPerId ==
    \A i, j \in 1..Len(inbox) : elems[inbox[i]].id = elems[inbox[j]].id => i = j

\* C4: the read flag is monotonic. While no insertion of X is pending, once
\* the inbox shows X as read no step makes the inbox show X unread, and none
\* leaves X unread in the session cache once no mark-read call for X is in
\* flight.
ReadFlagMonotonic ==
    [][\A id \in Ids :
          (/\ ShownFor(id) # {}
           /\ ShownFor(id) \cap UnreadShown = {}
           /\ ~AddPending(id))
          => /\ (ShownFor(id) \cap UnreadShown)' = {}
             /\ ~MarkInFlight(id)' /\ ShownFor(id)' # {} => ~CachedUnread(id)']_vars

\* C5: when a dismiss event for X has removed the entry while the local
\* dismiss call for X was in flight, the completion of that call, the second
\* removal, leaves both counters as they are.
SecondRemovalIsNoOp ==
    [][\A i \in 1..Len(posts) :
          (/\ posts[i].kind = "dismiss" /\ posts[i].raced
           /\ Len(posts') = Len(posts) - 1
           /\ \A j \in 1..Len(posts') :
                 posts'[j].id = posts[IF j < i THEN j ELSE j + 1].id
                 /\ posts'[j].kind = posts[IF j < i THEN j ELSE j + 1].kind)
          => totalCount' = totalCount /\ unreadCount' = unreadCount]_vars

\* C6: once the dismissal of X has been applied, and until a notification
\* event brings X again, X is in neither the inbox nor the session cache.
DismissedStaysAbsent ==
    \A id \in dismissed : ShownFor(id) = {} /\ ~Cached(id)

\* C7: the mark-read requests for one id lower the unread count at most once
\* in total: no request lowers it for an id whose count was lowered before.
MarkReadLowersOnce ==
    [][\A id \in Ids : last'.did = "lowered" /\ last'.id = id => id \notin lowered]_vars

\* the reference merge: the local entries keyed by id; each remote entry in
\* order deletes its id when it is dismissed and replaces or adds it otherwise
RECURSIVE RefMerge(_, _)
RefMerge(S, rs) ==
    IF rs = <<>> THEN S
    ELSE LET r == Head(rs)
             others == {n \in S : n.id # r.id}
         IN RefMerge(IF r.dismissed THEN others ELSE others \cup {Note(r.id, r.read)},
                     Tail(rs))

\* C8: what a successful fetch stores and renders is the reference merge of
\* the cached list it read and the response; an empty response leaves the
\* local set as it was.
MergeMatchesReference ==
    [][\A i \in 1..Len(fetches) :
          (fetches[i].status = "ok" /\ fetches' = RemoveAt(fetches, i)
           /\ last'.did = "merged")
          => LET ref == RefMerge(Range(fetches[i].local), fetches[i].remote) IN
             /\ Range(cache') = ref
             /\ ShownSet' = ref
             /\ fetches[i].remote = <<>> => Range(cache') = Range(fetches[i].local)]_vars

\* a merge has just stored and rendered an entry as read
MergeRendered ==
    /\ last.did = "merged" /\ fetches = <<>>
    /\ cache # <<>> /\ Len(inbox) = Len(cache)
    /\ \E e \in Range(inbox) : elems[e].read

\* C9: with no subscriberId or no widgetKey in the effective configuration
\* the constructor stops: no widget DOM, no realtime connection, no refresh
\* timer, no reminder timer and no fetch.
NoWidgetWithoutRequired ==
    (phase # "unloaded" /\ (config.subscriberId = Null \/ config.widgetKey = Null))
    => /\ phase = "rejected"
       /\ ~domCreated /\ socket = Null /\ refreshMs = 0 /\ ~reminderOn
       /\ fetches = <<>>

\* a constructor has stopped for the widgetKey alone, with every timer asked for
RejectedWithoutKey ==
    /\ phase = "rejected" /\ config.subscriberId # Null /\ config.widgetKey = Null
    /\ config.refreshInterval # 0 /\ config.audioReminder

NotifiedStep(b) ==
    /\ last'.did = "notified" /\ last'.id = b
    /\ Len(pendingAdds') = Len(pendingAdds) + 1
InsertedStep(b) ==
    /\ last'.did = "notified" /\ last'.id = b
    /\ Len(pendingAdds') = Len(pendingAdds) - 1

\* C11: a realtime blocker notification, whatever toastAlert is, shows the
\* modal at once and no toast, and its inbox entry is inserted (total + 1,
\* unread + 1) by a timer of delay 0 that can fire while the modal is shown.
BlockerShownAndInserted ==
    [][\A b \in BlockerIds :
          /\ NotifiedStep(b)
                => /\ modal'.shown /\ modal'.id = b
                   /\ toasts' = toasts
                   /\ pendingAdds'[Len(pendingAdds')] = [n |-> Note(b, FALSE), delay |-> 0]
          /\ InsertedStep(b)
                => /\ totalCount' = totalCount + 1
                   /\ unreadCount' = unreadCount + 1
                   /\ elems'[inbox'[1]] = Note(b, FALSE)
          /\ \A i \in 1..Len(pendingAdds) :
                (pendingAdds[i].n.id = b /\ MayFire(i)) => ENABLED InsertTimer(i)]_vars

\* with toasts on, the timer has put a blocker in the inbox (no fetch has
\* stored it) while its modal is still shown and not closed, and the toaster
\* is empty
BlockerInInboxUnderModal ==
    \E b \in BlockerIds :
        /\ config.toastAlert /\ toasts = {}
        /\ modal.shown /\ modal.id = b /\ b \notin acked
        /\ ShownFor(b) # {} /\ cache = <<>> /\ ~AddPending(b)

\* C12: a blocker entry appears in the inbox only after its modal has been
\* shown and the user has closed it.
BlockerNeedsDismissal ==
    [][\A b \in BlockerIds :
          (ShownFor(b) = {} /\ ShownFor(b)' # {}) => b \in acked]_vars

\* C13: the modal shown for a blocker is hidden only after the user has
\* closed it since that blocker was shown.
ModalStaysUntilDismissed ==
    [][(modal.shown /\ ~modal'.shown /\ phase' = "running")
          => modal.id \in acked]_vars

\* C14: a constructor that finds another locationId in the stored settings
\* than the one it is given leaves the session cache and the watermark
\* removed, issues its first fetch with nothing cached, and stores the old
\* settings with only locationId replaced.
LocationChangeClears ==
    [][(/\ phase = "unloaded" /\ phase' # "unloaded"
        /\ settings.present /\ config'.locationId # settings.cfg.locationId)
          => /\ cache' = <<>> /\ lastFetched' = 0
             /\ phase' = "running" => fetches' = <<NewFetch(<<>>)>>
             /\ settings' = Stored([settings.cfg EXCEPT
                                       !.locationId = config'.locationId])]_vars

\* the constructor has just removed a cache and a watermark and has fetched
LocationJustChanged ==
    /\ last.did = "cleared" /\ Running
    /\ cache = <<>> /\ lastFetched = 0 /\ Len(fetches) = 1

\* C15: the inbox shows no notification of another location than the one in
\* effect.
NoCrossLocationEntries ==
    Running => \A id \in NoteIds : ShownFor(id) # {} => place[id] = config.locationId

\* what the inbox shows, top first
Shown == [k \in 1..Len(inbox) |-> elems[inbox[k]]]

\* the step that ends the dismiss POST i for a backend id without the
\* backend having applied it: the call failed
FailedDismissStep(i) ==
    /\ posts[i].kind = "dismiss" /\ posts[i].id \in NoteIds
    /\ phase' = "running"
    /\ Len(posts') = Len(posts) - 1
    /\ \A j \in 1..Len(posts') :
          /\ posts'[j].id = posts[IF j < i THEN j ELSE j + 1].id
          /\ posts'[j].kind = posts[IF j < i THEN j ELSE j + 1].kind
    /\ srv' = srv /\ last'.did # "dismissed"

\* C16: when the backend call of a local dismiss fails, the inbox, the two
\* counters and the session cache stay as they are.
FailedDismissMutatesNothing ==
    [][\A i \in 1..Len(posts) :
          FailedDismissStep(i)
             => /\ Shown' = Shown
                /\ totalCount' = totalCount /\ unreadCount' = unreadCount
                /\ cache' = cache]_vars

\* C17: the step that sends the mark-read POST changes neither what the
\* inbox shows nor the unread count; they change after the call succeeded.
MarkReadWaitsForBackend ==
    [][(/\ Len(posts') = Len(posts) + 1
        /\ posts'[Len(posts')].kind = "mark"
        /\ posts'[Len(posts')].id \in NoteIds)
          => Shown' = Shown /\ unreadCount' = unreadCount]_vars

\* the step that handles a listing response of non-2xx status: the pending
\* fetch is over and the synthetic error notification is on top of the inbox
FailedFetchStep ==
    /\ \E i \in 1..Len(fetches) :
          fetches[i].status = "sent" /\ fetches' = RemoveAt(fetches, i)
    /\ Len(inbox') = Len(inbox) + 1
    /\ elems'[inbox'[1]].id = ErrId

\* C18: after the handling of a failed fetch the socket is offline, neither
\* connected nor connecting, whatever its state was before.
FailedFetchForcesOffline ==
    [][FailedFetchStep => socket' \in {"null", "disconnected"}]_vars

\* C19: after the handling of a failed fetch the audio reminder is off and
\* no reminder timer is set, with or without a socket.
FailedFetchSilencesReminder ==
    [][FailedFetchStep => ~config'.audioReminder /\ ~reminderOn']_vars

\* C20: a successful fetch-and-merge removes from the inbox a notification
\* that is shown and cached, is gone on the backend and is not in the
\* response.
FetchPurgesExpired ==
    [][\A i \in 1..Len(fetches) : \A id \in NoteIds :
          (/\ fetches[i].status = "ok" /\ fetches' = RemoveAt(fetches, i)
           /\ last'.did = "merged"
           /\ srv[id] = "gone"
           /\ \A k \in 1..Len(fetches[i].remote) : fetches[i].remote[k].id # id
           /\ ShownFor(id) # {} /\ Cached(id))
          => ShownFor(id)' = {}]_vars

\* C21: once the dismiss event for X has reached a page that had received X,
\* and the page's pending timers have fired, X is not in its inbox.
ConvergesAfterDismiss ==
    (Running /\ pendingAdds = <<>>) => \A id \in wire.told : ShownFor(id) = {}

\* C22: the handling of a fetch that ends with a non-2xx status leaves the
\* watermark, the session cache and the inbox entries as they are, starts no
\* request, and puts one unread error notification on top of the inbox, with
\* total and unread raised by one each.
FailedFetchAddsOneError ==
    [][(\E i \in 1..Len(fetches) :
           fetches[i].status = "sent" /\ fetches' = RemoveAt(fetches, i))
          => /\ lastFetched' = lastFetched /\ cache' = cache
             /\ posts' = posts
             /\ Shown' = <<Note(ErrId, FALSE)>> \o Shown
             /\ totalCount' = totalCount + 1
             /\ unreadCount' = unreadCount + 1]_vars

\* a second refused fetch has put its error notification above the first one
TwoErrorsShown ==
    /\ Running /\ Len(inbox) = 2 /\ totalCount = 2 /\ unreadCount = 2
    /\ \A k \in 1..2 : Shown[k] = Note(ErrId, FALSE)

\* C23: right after a successful fetch-and-merge the inbox shows the merged
\* set, one entry each and nothing else, the session cache holds the same
\* set, total is its size, unread is the number of its unread entries and
\* the watermark is set; also while another fetch is pending.
RebuiltFromMerge ==
    [][\A i \in 1..Len(fetches) :
          (fetches[i].status = "ok" /\ fetches' = RemoveAt(fetches, i)
           /\ last'.did = "merged")
          => LET merged == RefMerge(Range(fetches[i].local), fetches[i].remote) IN
             /\ ShownSet' = merged /\ Len(inbox') = Cardinality(merged)
             /\ Range(cache') = merged /\ Len(cache') = Cardinality(merged)
             /\ totalCount' = Cardinality(merged)
             /\ unreadCount' = Cardinality({n \in merged : ~n.read})
             /\ lastFetched' = 1]_vars

\* a fetch has just rebuilt the inbox, all entries read and none counted
\* unread, while another fetch is pending
RebuiltWhileFetching ==
    /\ last.did = "merged" /\ fetches # <<>>
    /\ inbox # <<>> /\ totalCount = Len(inbox)
    /\ unreadCount = 0 /\ \A e \in Range(inbox) : elems[e].read

\* C24: every markReadNotification or dismissNotification event the page has
\* emitted follows a backend call for that id that succeeded.
EmitsFollowSuccess == \A e \in wire.out : e.ok

\* C25: a mark-read or dismiss event for an id that has no element in the
\* document leaves the inbox, both counters and the session cache as they
\* are, and throws nothing.
UnknownIdEventIsNoOp ==
    [][\A id \in Ids :
          (/\ Positions(Dom, id) = {} /\ id \notin toasts
           /\ (OnMarkReadEvent(id) \/ OnDismissEvent(id)))
          => /\ UNCHANGED <<inbox, elems, unreadCount, totalCount, cache>>
             /\ last'.did # "threw"]_vars

\* an event has returned early for a notification that a fetch had shown and
\* stored and an earlier dismiss event had removed; another one is shown
EventIgnoredAfterRemoval ==
    /\ Running /\ wire.idle # {}
    /\ \E id \in wire.idle : srv[id] = "gone" /\ ShownFor(id) = {} /\ ~Cached(id)
    /\ lastFetched = 1 /\ last.did = ""

\* ------------------------------------------------ resolving the configuration
\* Pages that give both required options and any of the others, constructed
\* and reloaded over stored settings that the settings panel changes.
ResolveOptions ==
    {o \in CallerOptions :
        {"subscriberId", "widgetKey"} \subseteq o.given /\ o.val.refreshInterval \in {60, 600}}

NextResolve ==
    \/ \E opts \in ResolveOptions : Construct(opts)
    \/ Reload
    \/ ToggleToastAlert
    \/ \E id \in Ids : SrvPublish(id)
    \/ \E i \in 1..MaxInFlight : \E r \in Responses : SrvAnswerFetch(i, r)
    \/ \E i \in 1..MaxInFlight : FetchThen(i)
SpecResolve == Init /\ [][NextResolve]_vars

\* C26: when stored settings exist, every field of the effective
\* configuration but locationId has the stored value, whatever the caller
\* gave; locationId is the one of this invocation (the caller's, or the
\* default); with no stored settings the effective configuration is the
\* defaults overlaid with the caller's options.
ConfigResolution ==
    [][\A opts \in ResolveOptions :
          Construct(opts)
          => LET initialConfig == Overlay(DefaultConfig, opts)
             IN IF settings.present
                THEN /\ \A f \in Fields \ {"locationId"} : config'[f] = settings.cfg[f]
                     /\ config'.locationId = initialConfig.locationId
                ELSE config' = initialConfig]_vars

\* a page constructed for another location than the stored one, with stored
\* settings that replaced options its caller gave, and a cache to clear
ResolvedAgainstCaller ==
    /\ Running /\ last.overrode /\ last.did = "cleared"
    /\ config.locationId = "store-2" /\ ~config.toastAlert

\* C27: with showInboxOnLoad on, the page itself toggles the inbox panel at
\* most once while it lives: the first fetch whose answer is merged does it,
\* no later merge does (periodic, after a reconnect, or one that was in
\* flight together with the first), and a refused fetch never does.
InboxShownOnce ==
    [][Running =>
        /\ notificationsLoaded => notificationsLoaded'
        /\ \A i \in 1..Len(fetches) :
              fetches' = RemoveAt(fetches, i) =>
                 IF fetches[i].status = "ok"
                 THEN /\ notificationsLoaded'
                      /\ centerOpen' = IF ~notificationsLoaded /\ config.showInboxOnLoad
                                       THEN ~centerOpen ELSE centerOpen
                 ELSE /\ centerOpen' = centerOpen
                      /\ notificationsLoaded' = notificationsLoaded
        /\ centerOpen' # centerOpen =>
              \/ ClickToggleCenter
              \/ /\ ~notificationsLoaded /\ config.showInboxOnLoad
                 /\ \E i \in 1..Len(fetches) :
                       fetches[i].status = "ok" /\ fetches' = RemoveAt(fetches, i)]_vars

\* the first merge has opened the inbox, the user has closed it, and the
\* answer of a second fetch has been merged with a third still in flight
InboxStaysClosed ==
    /\ Running /\ config.showInboxOnLoad /\ notificationsLoaded /\ ~centerOpen
    /\ last.did = "merged" /\ socket = "connected" /\ fetches # <<>>

\* ------------------------------------------------------ toasts and the pointer
\* Notifications arrive with toasts on or off; the timers of each toast run
\* and the pointer enters and leaves it.
NextToast ==
    \/ \E opts \in AlertOptions : Construct(opts)
    \/ OnSocketIoLoaded
    \/ OnConnect
    \/ \E id \in Ids : SrvPublish(id)
    \/ \E id \in Ids : OnNotification(id)
    \/ \E i \in 1..MaxInFlight : InsertTimer(i)
    \/ \E id \in Ids : ToastShowTimer(id)
    \/ \E id \in Ids : ToastCountdown(id)
    \/ \E id \in Ids : ToastOrphanCountdown(id)
    \/ \E id \in Ids : ToastRemoved(id)
    \/ \E id \in Ids : MouseEnter(id)
    \/ \E id \in Ids : MouseLeave(id)
    \/ \E i \in 1..MaxInFlight : \E r \in Responses : SrvAnswerFetch(i, r)
    \/ \E i \in 1..MaxInFlight : FetchThen(i)
SpecToast == Init /\ [][NextToast]_vars

\* ------------------------------------------------------- reset to defaults
\* Pages that follow one another in the tab: the caller gives toastAlert and
\* gives or leaves out each of the required options; the user toggles
\* settings and resets them.
RetryOptions ==
    {[given |-> g \cup {"toastAlert"},
      val |-> [DefaultConfig EXCEPT !.subscriberId = "sub", !.widgetKey = "key",
                                    !.toastAlert = t]] :
        g \in SUBSET {"subscriberId", "widgetKey"}, t \in BOOLEAN}

NextReset ==
    \/ \E opts \in RetryOptions : Construct(opts)
    \/ Reload
    \/ ToggleToastAlert
    \/ ClickAudioReminder
    \/ ResetSettings
    \/ \E id \in Ids : SrvPublish(id)
    \/ \E i \in 1..MaxInFlight : \E r \in Responses : SrvAnswerFetch(i, r)
    \/ \E i \in 1..MaxInFlight : FetchThen(i)
SpecReset == InitReset /\ [][NextReset]_vars

\* C28: a realtime notification that is no blocker, with toastAlert on, shows
\* its toast at once and sets the inbox insertion to toastDuration seconds
\* later; with toastAlert off it shows no toast and sets the insertion to
\* 0 ms. Each event sets one timer, each timer inserts one entry, and a
\* pending insertion does happen.
DeliveredOnceAsConfigured ==
    /\ [][\A id \in Ids :
            /\ NotifiedStep(id)
                  => /\ inbox' = inbox /\ modal' = modal
                     /\ pendingAdds'[Len(pendingAdds')] =
                           [n |-> Note(id, FALSE),
                            delay |-> IF config.toastAlert THEN ToastDuration * 1000 ELSE 0]
                     /\ IF config.toastAlert
                        THEN toasts' = toasts \cup {id} /\ toast'[id].showTimer
                        ELSE toasts' = toasts /\ toast' = toast
            /\ InsertedStep(id)
                  => /\ Len(inbox') = Len(inbox) + 1
                     /\ elems'[inbox'[1]] = Note(id, FALSE)
                     /\ totalCount' = totalCount + 1
                     /\ unreadCount' = unreadCount + 1]_vars
    /\ \A id \in Ids :
          AddPending(id) ~> (last.did = "notified" /\ last.id = id /\ ~AddPending(id))

\* the entry of a notification that came with a toast has been inserted while
\* the toast is still there
InsertedAfterToast ==
    /\ Running /\ config.toastAlert /\ pendingAdds = <<>>
    /\ last.did = "notified" /\ last.id \in Ids \cap toasts
    /\ ShownFor(last.id) # {}

\* C29: the dismiss control of a toast only removes the toast: the click and
\* its 300 ms timer start no backend call, emit no realtime event and leave
\* the inbox, both counters and the session cache as they are; the insertion
\* that the notification event scheduled stays pending and can run.
ToastDismissOnlyRemovesToast ==
    /\ [][\A id \in Ids :
            (ClickDismissToast(id) \/ DismissToastTimer(id))
            => /\ UNCHANGED <<posts, fetches, markAllQ, dismissAllQ, srv, inbox, elems,
                              unreadCount, totalCount, cache, lastFetched, pendingAdds>>
               /\ wire'.out = wire.out
               /\ toast'[id].dismissers < toast[id].dismissers => id \notin toasts']_vars
    /\ [](Running /\ pendingAdds # <<>> => ENABLED InsertTimer(1))

\* the toast was taken away by its dismiss control, its countdown still to
\* come, and the entry has then been inserted; nothing was sent or emitted
InsertedAfterToastDismissed ==
    /\ Running /\ pendingAdds = <<>> /\ posts = <<>> /\ wire.out = {}
    /\ last.did = "notified" /\ last.id \in Ids \ toasts
    /\ toast[last.id].armed /\ toast[last.id].removers = 0
    /\ srv[last.id] = "unread" /\ ShownFor(last.id) # {}

\* C30: while the pointer is over a toast, whenever it entered, the toast is
\* neither hidden nor removed, and when the pointer leaves exactly one
\* countdown is running.
HoverPausesToast ==
    [][\A id \in Ids :
          /\ (id \in toasts /\ toast[id].hover) => id \in toasts'
          /\ (id \in toasts' /\ toast'[id].hover) => ~toast'[id].hide
          /\ (id \in toasts /\ toast[id].hover /\ ~toast'[id].hover)
                => toast'[id].armed /\ toast'[id].orphans = 0]_vars

\* C31: every toast that is shown leaves the toaster unless the pointer
\* stays over it, and whenever a toast has left, by the end of its countdown,
\* after a pause, or by its dismiss control, the <style> element that
\* showToast added for it has left the document too.
StyleLeavesWithToast ==
    \A id \in Ids : (toast[id].style \/ toast[id].leaked) => id \in toasts

\* C32: once a toast has left the toaster, by its countdown or by its dismiss
\* control, no show, hide or removal timer for it is pending.
TimersLeaveWithToast ==
    \A id \in Ids :
        id \notin toasts
        => /\ ~toast[id].showTimer /\ ~toast[id].armed /\ toast[id].orphans = 0
           /\ toast[id].removers = 0 /\ toast[id].dismissers = 0

\* C33: the 5 s footer interval of an inbox entry is set as long as the entry
\* is in the inbox: no entry leaves with its interval set, whatever removes
\* it, and the interval of an entry that stays is not cleared (it may be
\* while the dismiss call that a click started is in flight).
FooterIntervalFollowsEntry ==
    /\ ~wire.leaked
    /\ \A id \in wire.stopped :
          \E i \in 1..Len(posts) : posts[i].kind = "dismiss" /\ posts[i].id = id

\* C34: a reminder tick plays a cue only when audioReminder is on and the
\* unread count is above zero; the cue is the audible one when audioAlert is
\* on and the silent one when it is off. At an unread count of zero no cue
\* plays.
ReminderNeedsUnread ==
    [][\A a \in BOOLEAN :
          ReminderTick(a)
          => last'.did = IF config.audioReminder /\ unreadCount > 0
                         THEN (IF a THEN "audible" ELSE "silent")
                         ELSE ""]_vars

\* a tick has played the silent cue for an unread entry
SilentReminderPlayed ==
    /\ Running /\ last.did = "silent" /\ reminderOn /\ config.audioReminder
    /\ unreadCount > 0 /\ UnreadShown # {}

\* C38: once the page is constructed, whatever reminder toggles and refused
\* fetches follow, there is at most one reminder interval, and there is one
\* exactly when audioReminder is true.
OneReminderTimerWhenOn ==
    Running => /\ reminderTimers <= 1
               /\ reminderTimers = 1 <=> config.audioReminder
               /\ reminderOn <=> config.audioReminder

\* a refused fetch has turned the reminder off and the user has turned it on
\* again: one interval
ReminderOnAgain ==
    /\ Running /\ config.audioReminder /\ reminderTimers = 1 /\ reminderOn
    /\ socket = "disconnected" /\ ShownFor(ErrId) # {}

\* C35: the session cache follows the inbox: once a mutation is complete (a
\* realtime notification inserted, a mark-read or dismiss applied here or by
\* a sibling, a fetch merged) and no other is under way, the cache holds the
\* ids of the inbox entries, each with the read flag of its entry.
CacheFollowsInbox ==
    (/\ Running /\ pendingAdds = <<>> /\ posts = <<>> /\ fetches = <<>>
     /\ markAllQ = <<>> /\ dismissAllQ = <<>>)
    => {n \in ShownSet : n.id # ErrId} = Range(cache)

\* C36: after a reset to defaults the session cache and the watermark are
\* absent, and this.config and the stored settings are the defaults overlaid
\* with the options the caller gave to the constructor: the user's toggles
\* are undone.
ResetRestoresCallerConfig ==
    last.did = "reset"
    => /\ cache = <<>> /\ lastFetched = 0
       /\ config = initial.cfg
       /\ settings = Stored(initial.cfg)


\* C39: when the last initialization in the tab was rejected for a missing
\* subscriberId or widgetKey, an initialization whose caller gives both
\* constructs the widget with the caller's subscriberId and widgetKey.
RetryAfterRejection ==
    [][(/\ phase = "unloaded" /\ phase' # "unloaded"
        /\ settings.present /\ RequiredMissing(settings.cfg)
        /\ initial'.cfg.subscriberId # Null /\ initial'.cfg.widgetKey # Null)
       => /\ phase' = "running" /\ domCreated'
          /\ config'.subscriberId = initial'.cfg.subscriberId
          /\ config'.widgetKey = initial'.cfg.widgetKey]_vars

\* --------------------------------------------------------- connection status
\* A page whose socket connects, drops and is toggled, with fetches that are
\* answered, refused or lost; the connection display is followed.
InitStatus ==
    /\ Start /\ recording = FALSE /\ wire = WireOff /\ initial = NoInitial
    /\ link = [LinkOff EXCEPT !.on = TRUE]

NextStatus ==
    \/ \E opts \in AlertOptions : Construct(opts)
    \/ OnSocketIoLoaded
    \/ OnConnect
    \/ OnDisconnect
    \/ ClickToggleConnection
    \/ \E i \in 1..MaxInFlight : \E r \in Responses : SrvAnswerFetch(i, r)
    \/ \E i \in 1..MaxInFlight : FetchThen(i)
    \/ \E i \in 1..MaxInFlight : FetchFailThen(i)
    \/ \E i \in 1..MaxInFlight : FetchLost(i)
SpecStatus == InitStatus /\ [][NextStatus]_vars

\* C37: in every state of a running page where no 'connect' handler awaits
\* its fetch, the status text reads Online exactly when the socket is
\* connected, and the indicator has the class "connected" exactly when the
\* text reads Online.
StatusMatchesConnection ==
    (Running /\ link.awaiting = {})
        => /\ link.text = "Online" <=> socket = "connected"
           /\ link.marked <=> link.text = "Online"


\* ---------------------------------------------------------------- dismiss all
\* A page with toasts on or off: notifications arrive as events and by fetch,
\* toasts run out, and the user dismisses everything.
NextSweep ==
    \/ \E opts \in AlertOptions : Construct(opts)
    \/ OnSocketIoLoaded
    \/ OnConnect
    \/ \E id \in Ids : SrvPublish(id)
    \/ \E id \in Ids : OnNotification(id)
    \/ \E i \in 1..MaxInFlight : InsertTimer(i)
    \/ \E id \in Ids : ToastShowTimer(id)
    \/ \E id \in Ids : ToastCountdown(id)
    \/ \E id \in Ids : ToastRemoved(id)
    \/ ClickDismissAll
    \/ DismissAllTimer
    \/ \E i \in 1..MaxInFlight : \E ok \in BOOLEAN : DismissThen(i, ok)
    \/ \E i \in 1..MaxInFlight : \E r \in Responses : SrvAnswerFetch(i, r)
    \/ \E i \in 1..MaxInFlight : FetchThen(i)
SpecSweep == Init /\ [][NextSweep]_vars

\* the dismiss POSTs in flight whose target is the dismiss control of a toast
ToastPosts(p, el) == {i \in 1..Len(p) : p[i].kind = "dismiss" /\ IsToast(el[p[i].elem])}

\* C40: dismiss-all sets one timer for each entry of the inbox and none for
\* a toast; no dismiss POST is sent for the dismiss control of a toast, and
\* no counter is lowered when the answer to such a POST is handled.
DismissAllOnlyInbox ==
    /\ [][(dismissAllQ = <<>> /\ dismissAllQ' # <<>>)
            => /\ Len(dismissAllQ') = Len(inbox)
               /\ \A k \in 1..Len(dismissAllQ') : ~IsToast(elems'[dismissAllQ'[k]])]_vars
    /\ [](ToastPosts(posts, elems) = {})
    /\ [][Cardinality(ToastPosts(posts', elems')) < Cardinality(ToastPosts(posts, elems))
            => totalCount' >= totalCount /\ unreadCount' >= unreadCount]_vars

====
